---------------------------- MODULE Spec2Model ----------------------------
(***************************************************************************)
(* A model of the distributed Streamable-HTTP MCP server:                  *)
(*   - the topic scheme (topics.ts),                                       *)
(*   - the in-memory event broker and session manager (examples/server),   *)
(*   - the HTTP transport's POST / GET / DELETE handlers (transport.ts),   *)
(*   - the protocol engine's correlation tables (connection.ts).           *)
(*                                                                         *)
(* Strings are sequences of characters, so that template-literal           *)
(* formatting, String(id) and subject tokenizing are computed and can      *)
(* collide exactly where the program's strings collide.                    *)
(*                                                                         *)
(* The program runs on one JavaScript event loop: an action is one run of  *)
(* code between two suspension points (an await on a handler, on a         *)
(* subscription's ready() or next(), a timer, an HTTP event).              *)
(***************************************************************************)
EXTENDS Naturals, Sequences, FiniteSets, TLC

VARIABLES
    topicA, topicB,         \* SpecTopics: two subjects built by the topic constructors
    storeConfigured,        \* options.sessions is set
    sessions,               \* InMemorySessionManager.sessions (the ids)
    uuidCount,              \* how many randomUUID() session ids were minted
    sequence,               \* InMemoryEventBroker.sequence
    history,                \* InMemoryEventBroker.history, in Map insertion order
    subs,                   \* every subscription created, in creation order
    activeSubs,             \* transport.activeSubs (indices into subs)
    http,                   \* the HTTP exchanges (one per slot)
    incomingRequests,       \* Protocol.incomingRequests: key -> AbortController
    abortedCtl,             \* the AbortControllers whose signal is aborted
    sent,                   \* envelopes the engine passed to transport.send
    cancels,                \* observation log: each cancellation processed, against
                            \* each handler running at that moment
    pendingRequests,        \* Protocol.pendingRequests: key -> outgoing request
    outgoing,               \* every request passed to Protocol.send, in call order
    engineClosed,           \* Protocol.close has run
    bg,                     \* the GET exchange holding the background stream
    reply,                  \* the latest DELETE or GET exchange, as answered on arrival
    deleted,                \* session ids a DELETE was answered 204 for
    progressTokenIndex,     \* Protocol.progressTokenIndex: progress key -> request key
    connections,            \* Protocol.connections (the connection ids)
    disconnectedTransports, \* connections whose transport.disconnect() was called
    notified,               \* every notification passed to Protocol.send, in call order
    rrIndex,                \* InMemoryEventBroker.rrIndex: group key -> next index
    server,                 \* the transport's HTTP server and how far disconnect() is
    hooks,                  \* every call of a server option hook (onReady), in call order
    handlers,               \* Protocol.handlers: method -> handler
    registered,             \* every call of Protocol.registerHandler, in call order
    routed,                 \* every HTTP request handleRequest has routed, in arrival order
    received,               \* the last response or error envelope the engine received
    facade,                 \* every call a handler made on its protocol facade, in call order
    progressed,             \* the last progress notification the engine received
    chained,                \* the last HTTP request's passage through the middleware chain
    mapped                  \* the last two triples the engine mapped to keys, with the keys

topicVars   == <<topicA, topicB>>
sessionVars == <<storeConfigured, sessions, uuidCount>>
brokerVars  == <<sequence, history, subs>>
engineInVars == <<incomingRequests, abortedCtl, sent, cancels>>
postVars    == <<activeSubs, http>>
\* What the POST pipeline's actions leave alone.
engineAuxVars == <<progressTokenIndex, connections, disconnectedTransports, notified>>
engineOutVars == <<pendingRequests, outgoing, engineClosed, engineAuxVars>>
getVars     == <<bg, reply, deleted>>
restOfPost  == <<topicA, topicB, facade, progressed, chained, mapped, rrIndex, server, hooks, handlers, registered, routed, received, engineOutVars, bg, reply,
                 deleted>>
\* What the topic constructors' actions leave alone.
restOfTopics == <<facade, progressed, chained, mapped, storeConfigured, sessions, uuidCount, sequence, history, subs,
                  activeSubs, http, incomingRequests, abortedCtl, sent, cancels,
                  engineOutVars, bg, reply, deleted, rrIndex, server, hooks, handlers, registered, routed, received>>
vars == <<topicA, topicB, facade, progressed, chained, mapped, storeConfigured, sessions, uuidCount, sequence, history,
          subs, activeSubs, http, incomingRequests, abortedCtl, sent, cancels,
          pendingRequests, outgoing, engineClosed, bg, reply, deleted,
          progressTokenIndex, connections, disconnectedTransports, notified, rrIndex,
          server, hooks, handlers, registered, routed, received>>

-----------------------------------------------------------------------------
(* Strings                                                                 *)

Str_mcp      == <<"m", "c", "p">>
Str_bg       == <<"b", "g">>
Str_inbound  == <<"i", "n", "b", "o", "u", "n", "d">>
Str_outbound == <<"o", "u", "t", "b", "o", "u", "n", "d">>
Str_dot      == <<".">>
Str_gt       == <<">">>
Str_star     == <<"*">>
Str_colon    == <<":">>
Str_undefined == <<"u", "n", "d", "e", "f", "i", "n", "e", "d">>
Str_null     == <<"n", "u", "l", "l">>

\* Sequence helpers.
SeqToSet(q) == { q[i] : i \in DOMAIN q }

\* Decimal digits, for String(n) and Number(s).
Digits == <<"0", "1", "2", "3", "4", "5", "6", "7", "8", "9">>

RECURSIVE DecimalString(_)
\* String(n) for a natural number n.
DecimalString(n) ==
    IF n < 10 THEN <<Digits[n + 1]>>
    ELSE DecimalString(n \div 10) \o <<Digits[(n % 10) + 1]>>

DigitValue(c) == (CHOOSE d \in 1..10 : Digits[d] = c) - 1
IsDigit(c) == \E d \in 1..10 : Digits[d] = c

RECURSIVE DecimalValue(_)
DecimalValue(str) ==
    IF str = << >> THEN 0
    ELSE 10 * DecimalValue(SubSeq(str, 1, Len(str) - 1)) + DigitValue(str[Len(str)])

\* Number(s): the empty string is 0, a string of digits is its value, and
\* anything else is NaN (not finite).
NumberOf(str) ==
    IF \A i \in DOMAIN str : IsDigit(str[i])
    THEN [finite |-> TRUE, value |-> DecimalValue(str)]
    ELSE [finite |-> FALSE, value |-> 0]

-----------------------------------------------------------------------------
(* topics.ts                                                               *)

\* `mcp.${p.sessionId}.${p.requestId}.${suffix}`
createRequestScopedTopic(suffix, p) ==
    Str_mcp \o Str_dot \o p.sessionId \o Str_dot \o p.requestId \o Str_dot \o suffix

\* `mcp.${p.sessionId}.bg.${suffix}`
createSessionScopedTopic(suffix, p) ==
    Str_mcp \o Str_dot \o p.sessionId \o Str_dot \o Str_bg \o Str_dot \o suffix

RequestInbound(p)     == createRequestScopedTopic(Str_inbound, p)
RequestOutbound(p)    == createRequestScopedTopic(Str_outbound, p)
BackgroundOutbound(p) == createSessionScopedTopic(Str_outbound, p)
BackgroundInbound(p)  == createSessionScopedTopic(Str_inbound, p)

\* `mcp.${p.sessionId}.>`
SessionWildcard(p) == Str_mcp \o Str_dot \o p.sessionId \o Str_dot \o Str_gt

RequestScopedFamilies == {"RequestInbound", "RequestOutbound"}
SessionScopedFamilies == {"BackgroundOutbound", "BackgroundInbound", "SessionWildcard"}

\* The subject a topic family builds from its parameters.
TopicSubject(family, p) ==
    CASE family = "RequestInbound"     -> RequestInbound(p)
      [] family = "RequestOutbound"    -> RequestOutbound(p)
      [] family = "BackgroundOutbound" -> BackgroundOutbound(p)
      [] family = "BackgroundInbound"  -> BackgroundInbound(p)
      [] family = "SessionWildcard"    -> SessionWildcard(p)

-----------------------------------------------------------------------------
(* JSON-RPC messages (assertions.ts)                                       *)

\* A JSON-RPC id keeps its JavaScript type; v is what String(id) returns.
NumId(n)  == [t |-> "number", v |-> DecimalString(n)]
StrId(cs) == [t |-> "string", v |-> cs]
NullId    == [t |-> "null", v |-> Str_null]
NoId      == [t |-> "absent", v |-> Str_undefined]

StringOf(id) == id.v

NoResult == [present |-> FALSE, of |-> <<0, 0>>]
NoError  == [present |-> FALSE, code |-> "", message |-> ""]

\* A message is the JSON object's members: id, method, params.requestId,
\* result and error, each possibly absent.
RequestMsg(id, method) ==
    [id |-> id, method |-> method, requestId |-> NoId, result |-> NoResult, error |-> NoError]
NotificationMsg(method, requestId) ==
    [id |-> NoId, method |-> method, requestId |-> requestId, result |-> NoResult, error |-> NoError]
ResultMsg(id, of) ==
    [id |-> id, method |-> "", requestId |-> NoId,
     result |-> [present |-> TRUE, of |-> of], error |-> NoError]
ErrorMsg(id, code, message) ==
    [id |-> id, method |-> "", requestId |-> NoId, result |-> NoResult,
     error |-> [present |-> TRUE, code |-> code, message |-> message]]

isJSONRPCRequest(m) ==
    /\ m.id.t \in {"string", "number"}
    /\ m.method # ""

isJSONRPCNotification(m) ==
    /\ m.id.t = "absent"
    /\ m.method # ""

isJSONRPCResponse(m) ==
    /\ m.id.t \in {"string", "number"}
    /\ m.result.present
    /\ ~m.error.present

isJSONRPCError(m) ==
    /\ m.id.t # "absent"
    /\ m.error.present

isCancelledNotification(m) ==
    /\ isJSONRPCNotification(m)
    /\ m.method = "notifications/cancelled"
    /\ m.requestId.t \in {"string", "number"}

-----------------------------------------------------------------------------
(* The in-memory event broker (examples/server)                            *)

RECURSIVE tokenize(_)
\* subject.split(".")
tokenize(subject) ==
    IF \A i \in DOMAIN subject : subject[i] # "."
    THEN <<subject>>
    ELSE LET k == CHOOSE i \in DOMAIN subject :
                    /\ subject[i] = "."
                    /\ \A j \in 1..(i - 1) : subject[j] # "."
         IN <<SubSeq(subject, 1, k - 1)>> \o tokenize(SubSeq(subject, k + 1, Len(subject)))

RECURSIVE MatchFrom(_, _, _)
\* The loop of subjectMatches from index i (i and j advance together).
MatchFrom(p, s, i) ==
    IF i > Len(p) THEN Len(p) = Len(s)
    ELSE IF p[i] = Str_gt THEN TRUE
    ELSE IF i > Len(s) THEN FALSE
    ELSE IF p[i] = Str_star THEN MatchFrom(p, s, i + 1)
    ELSE IF p[i] # s[i] THEN FALSE
    ELSE MatchFrom(p, s, i + 1)

subjectMatches(pattern, subject) == MatchFrom(tokenize(pattern), tokenize(subject), 1)

\* StoredMessage: the event id is String(++sequence).
Stored(seq, subject, data) == [id |-> DecimalString(seq), subject |-> subject, data |-> data]

\* A sequence given by its elements, as the explicit array of its values.
Array(f) == SubSeq(f, 1, Len(f))

\* history.get(subject) ? list.push(stored) : history.set(subject, [stored])
HistoryAppend(h, stored) ==
    IF \E i \in DOMAIN h : h[i].subject = stored.subject
    THEN Array([i \in DOMAIN h |->
                  IF h[i].subject = stored.subject
                  THEN [h[i] EXCEPT !.messages = Append(@, stored)]
                  ELSE h[i]])
    ELSE Append(h, [subject |-> stored.subject, messages |-> <<stored>>])

\* Fault variant of QueuePush: a queue that drops what it is given.
QueuePush_Dropping(sub, stored) == sub

\* AsyncQueue.push through MemorySubscription.push: dropped once closed.  An
\* item handed to a parked next() and an item left in items are both "in the
\* queue" here; the consumer's step takes it.  got records every id accepted.
QueuePush(sub, stored) ==
    IF sub.unsubscribed THEN sub
    ELSE [sub EXCEPT !.items = Append(@, stored), !.got = Append(@, stored.id)]

\* A subscriber that publish() fans out to: still in broker.subscribers, live
\* at the backend, and its pattern matches.
Delivers(sub, subject) ==
    /\ ~sub.unsubscribed
    /\ sub.ready
    /\ subjectMatches(sub.pattern, subject)

\* options.queueGroup when it is undefined or "": `if (!sub.queueGroup)`.
NoGroup == << >>

\* publish()'s loop over the matching subscribers without a queue group.
PublishSubs(ss, stored) ==
    Array([i \in DOMAIN ss |->
             IF Delivers(ss[i], stored.subject) /\ ss[i].queueGroup = NoGroup
             THEN QueuePush(ss[i], stored) ELSE ss[i]])

\* An optional header or option value.
Undefined == [present |-> FALSE, value |-> << >>]
Defined(v) == [present |-> TRUE, value |-> v]

RECURSIVE ReplayFrom(_, _, _, _)
\* The replay loop of subscribe(): history entries in Map order from entry k,
\* messages with a finite seq <= from skipped.
ReplayFrom(h, pattern, from, k) ==
    IF k > Len(h) THEN << >>
    ELSE LET Keep(st) == ~(from.finite /\ NumberOf(st.id).finite
                           /\ NumberOf(st.id).value <= from.value)
             kept == IF subjectMatches(pattern, h[k].subject)
                     THEN SelectSeq(h[k].messages, Keep)
                     ELSE << >>
         IN kept \o ReplayFrom(h, pattern, from, k + 1)

\* Fault variant of Replay: the whole history is replayed, whatever the id.
Replay_All(h, pattern, fromEventId) ==
    IF ~fromEventId.present THEN << >>
    ELSE ReplayFrom(h, pattern, [finite |-> FALSE, value |-> 0], 1)

\* subscribe()'s `if (fromEventId !== undefined)` block.
Replay(h, pattern, fromEventId) ==
    IF ~fromEventId.present THEN << >>
    ELSE ReplayFrom(h, pattern, NumberOf(fromEventId.value), 1)

\* The subscription subscribe() returns (here without a queue group).
\* ready is TRUE for the in-memory
\* broker (registered synchronously); a backend whose subscriptions go live
\* asynchronously returns it with ready FALSE.  liveSeq records the broker's
\* sequence when the subscription went live.
NewSubscription(pattern, fromEventId, isReady, seq, h) ==
    LET replayed == Replay(h, pattern, fromEventId)
    IN [pattern |-> pattern, queueGroup |-> NoGroup, fromEventId |-> fromEventId,
        ready |-> isReady, failed |-> FALSE, unsubscribed |-> FALSE,
        items |-> replayed, got |-> Array([i \in DOMAIN replayed |-> replayed[i].id]),
        liveSeq |-> seq]

\* MemorySubscription.unsubscribe: idempotent; removes the subscriber and
\* closes the queue (items already queued stay readable).
Unsubscribe(sub) == IF sub.unsubscribed THEN sub ELSE [sub EXCEPT !.unsubscribed = TRUE]

UnsubscribeAll(ss, ids) ==
    Array([i \in DOMAIN ss |-> IF i \in ids THEN Unsubscribe(ss[i]) ELSE ss[i]])

-----------------------------------------------------------------------------
(* Bounds and input sets                                                   *)

MaxHttp     == 2      \* HTTP exchanges in one behaviour
MaxSessions == 2      \* session ids minted in one behaviour

Slots == 1..MaxHttp

\* randomUUID(): the k-th id minted; ids never repeat.
Uuid(k) == <<"u">> \o DecimalString(k)

\* Connection ids made by Protocol.connect (this.id.generate).
ConnId      == <<"c", "1">>
OtherConnId == <<"c", "2">>

\* Request ids the clients use: the number 1 and the string "1", two
\* different JSON-RPC ids.  A client never reuses an id within a session.
RequestIds == { NumId(1), StrId(<<"1">>) }

\* Methods: two with a registered handler (one of them a streaming method)
\* and one with none.
RegisteredMethods == { "ping", "tools/call" }

\* The notifications with a registered handler: lifecycle.register installs
\* handleInitialized, which calls serverOptions.onReady(session).
NotificationHandlers == { "notifications/initialized" }
\* The method -> handler table once the server is constructed: the handlers
\* its features registered, each named after the feature.
InitialHandlers ==
    { [key |-> m, val |-> "server"] : m \in RegisteredMethods \cup NotificationHandlers }
ClientMethods     == RegisteredMethods \cup { "nope" }

\* Accept headers, as the set of media ranges they contain.
AcceptHeaders ==
    { {"application/json"}, {"text/event-stream"},
      {"application/json", "text/event-stream"}, {"*/*"}, {"text/html"} }

\* Mcp-Session-Id request headers.
SessionHeaders == {Undefined} \cup { Defined(Uuid(k)) : k \in 1..MaxSessions }

\* Request bodies: what JSON.parse yields, or a body that does not parse.
InvalidBody  == [valid |-> FALSE, isBatch |-> FALSE, messages |-> << >>]
Single(m)    == [valid |-> TRUE, isBatch |-> FALSE, messages |-> <<m>>]
Batch(ms)    == [valid |-> TRUE, isBatch |-> TRUE, messages |-> ms]

PostBodies ==
    { Single(RequestMsg(NumId(1), m)) : m \in ClientMethods }
    \cup { Single(RequestMsg(StrId(<<"1">>), "ping")) }
    \cup { Batch(<<RequestMsg(NumId(1), "ping"), RequestMsg(StrId(<<"1">>), "ping")>>) }
    \cup { Single(NotificationMsg("notifications/cancelled", id)) : id \in RequestIds }
    \cup { Single(NotificationMsg("notifications/initialized", NoId)), Batch(<< >>), InvalidBody }

\* How the broker backend behaves for the subscriptions of one exchange:
\* "memory" is the in-memory broker (live on return); "remote" goes live
\* asynchronously; "subscribeThrows" fails the last subscribe call.
Backends == { "memory", "remote", "subscribeThrows" }

-----------------------------------------------------------------------------
(* Session management (transport.ts, InMemorySessionManager)               *)

\* getOrCreateSession: the header is looked up only when a store is
\* configured; otherwise a session (with a store) or a bare id (without) is
\* made.
getOrCreateSession(hdr) ==
    IF hdr.present /\ hdr.value # << >> /\ storeConfigured
    THEN IF hdr.value \in sessions
         THEN [success |-> TRUE, sessionId |-> hdr.value, isNewSession |-> FALSE]
         ELSE [success |-> FALSE, sessionId |-> << >>, isNewSession |-> FALSE]
    ELSE [success |-> TRUE, sessionId |-> Uuid(uuidCount + 1), isNewSession |-> TRUE]

\* getExistingSession: 400 without the header, 404 when the store does not
\* know the id, and the client's id taken as it is without a store.
getExistingSession(hdr) ==
    IF ~hdr.present \/ hdr.value = << >>
    THEN [success |-> FALSE, status |-> 400, sessionId |-> << >>]
    ELSE IF storeConfigured /\ hdr.value \notin sessions
         THEN [success |-> FALSE, status |-> 404, sessionId |-> << >>]
         ELSE [success |-> TRUE, status |-> 0, sessionId |-> hdr.value]

-----------------------------------------------------------------------------
(* The protocol engine's incoming side (connection.ts)                     *)

\* `${connectionId}:${sessionId}:${requestId}`
mapRequestKey(connectionId, sessionId, requestId) ==
    connectionId \o Str_colon \o sessionId \o Str_colon \o StringOf(requestId)

\* A Map as a set of entries with one entry per key.
MapHas(m, k)    == \E e \in m : e.key = k
MapGet(m, k)    == (CHOOSE e \in m : e.key = k).val
MapDelete(m, k) == { e \in m : e.key # k }
MapSet(m, k, v) == MapDelete(m, k) \cup { [key |-> k, val |-> v] }

\* JavaScript truthiness of an id-like value: undefined, 0 and "" are falsy.
Truthy(id) ==
    /\ id.t \in {"number", "string"}
    /\ ~(id.t = "number" /\ id.v = <<"0">>)
    /\ ~(id.t = "string" /\ id.v = << >>)

\* clearRequest + the future's resolve / reject, for the entry under key (if
\* any): the entry leaves the table, its timer is cleared, the progress
\* index entry whose key equals the request key is deleted, its future is
\* settled.  Gives <<pendingRequests, outgoing, progressTokenIndex>>.
Settle(table, out, index, key, kind) ==
    IF MapHas(table, key)
    THEN LET n == MapGet(table, key)
         IN <<MapDelete(table, key),
              [out EXCEPT ![n].completions = @ + 1,
                          ![n].kind = IF @ = "none" THEN kind ELSE @,
                          ![n].timer = IF @ = "armed" THEN "cleared" ELSE @],
              MapDelete(index, key)>>
    ELSE <<table, out, index>>

\* The request registered by a send for exactly this session and id that is
\* in the pending table (0: none).
Registered(session, id) ==
    IF \E n \in DOMAIN outgoing :
          outgoing[n].sessionId = session /\ outgoing[n].id = id
             /\ \E e \in pendingRequests : e.val = n
    THEN CHOOSE n \in DOMAIN outgoing :
            outgoing[n].sessionId = session /\ outgoing[n].id = id
               /\ \E e \in pendingRequests : e.val = n
    ELSE 0

\* The request passed to send for exactly this session and id whose future
\* has not been settled (0: none).
Awaited(session, id) ==
    IF \E n \in DOMAIN outgoing :
          outgoing[n].sessionId = session /\ outgoing[n].id = id
             /\ outgoing[n].completions = 0
    THEN CHOOSE n \in DOMAIN outgoing :
            outgoing[n].sessionId = session /\ outgoing[n].id = id
               /\ outgoing[n].completions = 0
    ELSE 0

\* handleCancellation: abort the controller stored under the key, if any,
\* and drop the entry.  Gives the new <<table, aborted controllers>>.
handleCancellation(table, aborted, connectionId, sessionId, requestId) ==
    LET key == mapRequestKey(connectionId, sessionId, requestId)
    IN IF MapHas(table, key)
       THEN <<MapDelete(table, key), aborted \cup {MapGet(table, key)}>>
       ELSE <<table, aborted>>

\* The HTTP server takes new requests until disconnect() calls server.close().
Accepting == server.pc \in {"listening", "unsubscribing"}

\* transport.send's routing: the subject an engine message is published on.
SendSubject(message, sessionId, requestId) ==
    IF requestId # << >>
    THEN RequestOutbound([sessionId |-> sessionId, requestId |-> requestId])
    ELSE IF isJSONRPCRequest(message)
         THEN BackgroundInbound([sessionId |-> sessionId])
         ELSE BackgroundOutbound([sessionId |-> sessionId])

-----------------------------------------------------------------------------
(* The transport's POST handler (transport.ts)                             *)

STREAMING_METHODS == { "tools/call", "sampling/createMessage", "prompts/get" }

\* defaultResponseModeStrategy (the messages here carry no _meta).
defaultResponseModeStrategy(messages) ==
    IF \E i \in DOMAIN messages :
          isJSONRPCRequest(messages[i]) /\ messages[i].method \in STREAMING_METHODS
    THEN "sse" ELSE "json"

\* accept.includes(x)
acceptsJson(accept) == "application/json" \in accept \/ "*/*" \in accept
acceptsSse(accept)  == "text/event-stream" \in accept \/ "*/*" \in accept

RECURSIVE RequestIndicesFrom(_, _)
\* messages.filter(isJSONRPCRequest), as the indices of the requests.
RequestIndicesFrom(messages, i) ==
    IF i > Len(messages) THEN << >>
    ELSE IF isJSONRPCRequest(messages[i])
         THEN <<i>> \o RequestIndicesFrom(messages, i + 1)
         ELSE RequestIndicesFrom(messages, i + 1)

RequestIndices(messages) == RequestIndicesFrom(messages, 1)

\* The response bodies the transport writes.
NoBody      == [kind |-> "none", items |-> << >>]
TextBody    == [kind |-> "text", items |-> << >>]
ObjectBody(m) == [kind |-> "object", items |-> <<m>>]
ArrayBody(ms) == [kind |-> "array", items |-> ms]

ParseErrorBody    == ObjectBody(ErrorMsg(NullId, "PARSE_ERROR", "Parse error"))
InternalErrorBody == ObjectBody(ErrorMsg(NullId, "INTERNAL_ERROR", "Internal Server Error"))
NoResponseMsg     == ErrorMsg(NullId, "INTERNAL_ERROR", "No response")
RequestTimeoutMsg(originalId) == ErrorMsg(originalId, "INTERNAL_ERROR", "Request timeout")

\* One HTTP exchange.  subs[k] is the subscription opened for the k-th
\* request of messages; cur is the message deliverToProtocol is at.
IdleHttp ==
    [pc |-> "idle", verb |-> "", sessionId |-> << >>, isNewSession |-> FALSE,
     messages |-> << >>, isBatch |-> FALSE, mode |-> "", subs |-> << >>, cur |-> 0,
     responses |-> << >>, pendingRequestIds |-> << >>, finished |-> {},
     status |-> 0, body |-> NoBody, events |-> << >>, sessionHeader |-> Undefined,
     disconnected |-> FALSE, acceptOk |-> FALSE, afterDelete |-> FALSE]

\* res.statusCode = status; res.end(body)
Ended(h, status, body) == [h EXCEPT !.pc = "done", !.status = status, !.body = body]

\* pendingRequestIds.set(String(request.id), request.id), in Map order.
PendingSet(pending, id) ==
    IF \E i \in DOMAIN pending : pending[i].key = StringOf(id)
    THEN Array([i \in DOMAIN pending |->
                  IF pending[i].key = StringOf(id) THEN [key |-> StringOf(id), id |-> id]
                  ELSE pending[i]])
    ELSE Append(pending, [key |-> StringOf(id), id |-> id])

RECURSIVE PendingUpTo(_, _, _)
\* pendingRequestIds after the loop has set the first k requests.
PendingUpTo(messages, idx, k) ==
    IF k = 0 THEN << >>
    ELSE PendingSet(PendingUpTo(messages, idx, k - 1), messages[idx[k]].id)

PendingDelete(pending, key) == SelectSeq(pending, LAMBDA e : e.key # key)

\* The request ids already used in a session.
IdsInSession(s) ==
    UNION { { http[q].messages[i].id :
                i \in { j \in DOMAIN http[q].messages : isJSONRPCRequest(http[q].messages[j]) } } :
            q \in { r \in Slots : http[r].pc # "idle" /\ http[r].sessionId = s } }

\* The subscribe loop of handleJsonResponse / handleSseResponse: one
\* subscription per request on request-outbound(session, String(id)), the
\* first n of them (all, unless subscribe throws).
OpenedSubs(sessionId, messages, n, isReady) ==
    Array([k \in 1..n |->
        NewSubscription(
            RequestOutbound([sessionId |-> sessionId,
                             requestId |-> StringOf(messages[RequestIndices(messages)[k]].id)]),
            Undefined, isReady, sequence, history)])

\* handlePost from the request's arrival up to its first await that another
\* event can precede: 406 / 404 / 400, or the notifications-only path, or the
\* subscribe loop of the JSON or SSE handler.  With the in-memory broker
\* ready() is already resolved and delivery is next; with a remote backend
\* the handler parks in `await Promise.all(ready)`.
PostArrive(p, accept, hdr, body, backend) ==
    LET sr   == getOrCreateSession(hdr)
        sid  == sr.sessionId
        h0   == [IdleHttp EXCEPT !.verb = "POST",
                                 !.acceptOk = acceptsJson(accept) \/ acceptsSse(accept),
                                 !.afterDelete = hdr.present /\ hdr.value \in deleted]
        h1   == [h0 EXCEPT !.sessionId = sid, !.isNewSession = sr.isNewSession,
                           !.messages = body.messages, !.isBatch = body.isBatch]
        idx  == RequestIndices(body.messages)
        mode == defaultResponseModeStrategy(body.messages)
        useSse  == mode = "sse" /\ acceptsSse(accept)
        useJson == ~useSse /\ acceptsJson(accept)
        nOpen == IF backend = "subscribeThrows" THEN Len(idx) - 1 ELSE Len(idx)
        newIds == Array([k \in 1..nOpen |-> Len(subs) + k])
        h2   == [h1 EXCEPT !.mode = IF useSse THEN "sse" ELSE "json",
                           !.sessionHeader = IF sr.isNewSession /\ sid # << >>
                                             THEN Defined(sid) ELSE Undefined,
                           !.status = IF useSse THEN 200 ELSE 0,
                           !.subs = newIds,
                           !.pendingRequestIds = PendingUpTo(body.messages, idx, Len(idx))]
        rejectedEarly == ~acceptsJson(accept) /\ ~acceptsSse(accept)
        created == ~rejectedEarly /\ sr.success
        opens == created /\ body.valid /\ idx # << >> /\ (useSse \/ useJson)
    IN
    /\ Accepting
    /\ http[p].pc = "idle"
    /\ \A q \in 1..(p - 1) : http[q].pc # "idle"
    /\ (created /\ sr.isNewSession) => uuidCount < MaxSessions
    /\ (created /\ body.valid) =>
            \A i \in DOMAIN idx : body.messages[idx[i]].id \notin IdsInSession(sid)
    /\ uuidCount' = IF created /\ sr.isNewSession THEN uuidCount + 1 ELSE uuidCount
    /\ sessions' = IF created /\ sr.isNewSession /\ storeConfigured
                   THEN sessions \cup {sid} ELSE sessions
    /\ subs' = IF opens
               THEN subs \o OpenedSubs(sid, body.messages, nOpen, backend = "memory")
               ELSE subs
    /\ activeSubs' = IF opens THEN activeSubs \cup { newIds[k] : k \in 1..nOpen }
                     ELSE activeSubs
    /\ http' = [http EXCEPT ![p] =
          IF rejectedEarly THEN Ended(h0, 406, TextBody)
          ELSE IF ~sr.success THEN Ended(h0, 404, TextBody)
          ELSE IF ~body.valid THEN Ended(h1, 400, ParseErrorBody)
          ELSE IF body.messages = << >> THEN Ended([h1 EXCEPT !.mode = "none"], 202, NoBody)
          ELSE IF idx = << >> THEN [h1 EXCEPT !.pc = "deliver", !.mode = "none", !.cur = 1]
          ELSE IF ~(useSse \/ useJson)
               THEN Ended([h1 EXCEPT !.sessionHeader = h2.sessionHeader], 406, TextBody)
          ELSE IF backend = "subscribeThrows"
               THEN IF useSse THEN Ended(h2, 200, NoBody)
                    ELSE Ended(h2, 500, InternalErrorBody)
          ELSE IF backend = "memory" THEN [h2 EXCEPT !.pc = "deliver", !.cur = 1]
          ELSE [h2 EXCEPT !.pc = "ready"]]
    /\ UNCHANGED <<storeConfigured, sequence, history, engineInVars>>
    /\ UNCHANGED restOfPost

SubIds(h) == { h.subs[k] : k \in DOMAIN h.subs }

\* await Promise.all(ready) returns: every subscription of the exchange is
\* live at the backend; deliverToProtocol starts.
PostReady(p) ==
    /\ http[p].pc = "ready"
    /\ subs' = Array([i \in DOMAIN subs |->
                 IF i \in SubIds(http[p])
                 THEN [subs[i] EXCEPT !.ready = TRUE, !.liveSeq = sequence] ELSE subs[i]])
    /\ http' = [http EXCEPT ![p].pc = "deliver", ![p].cur = 1]
    /\ UNCHANGED <<sessionVars, sequence, history, activeSubs, engineInVars>>
    /\ UNCHANGED restOfPost

\* A subscription's ready() rejects (only a backend that goes live
\* asynchronously can): the exception leaves handlePost and reaches
\* handleError; nothing on this path unsubscribes.
ReadyFault(p) ==
    /\ http[p].pc = "ready"
    /\ \E i \in SubIds(http[p]) : ~subs[i].ready /\ ~subs[i].unsubscribed
    /\ subs' = Array([i \in DOMAIN subs |->
                 IF i \in SubIds(http[p]) /\ ~subs[i].ready
                 THEN [subs[i] EXCEPT !.failed = TRUE] ELSE subs[i]])
    /\ http' = [http EXCEPT ![p] =
                 IF http[p].mode = "sse" THEN Ended(http[p], 200, NoBody)
                 ELSE Ended(http[p], 500, InternalErrorBody)]
    /\ UNCHANGED <<sessionVars, sequence, history, activeSubs, engineInVars>>
    /\ UNCHANGED restOfPost

\* The handlers running now, as controllers <<slot, message index>>.
RunningCtls == { <<q, http[q].cur>> : q \in { r \in Slots : http[r].pc = "handler" } }

\* What a cancellation processed now is to each running handler.
CancelObservations(connectionId, sessionId, requestId) ==
    { [ctl |-> c,
       sameConnection |-> connectionId = ConnId,
       sameSession |-> sessionId = http[c[1]].sessionId,
       sameId |-> requestId = http[c[1]].messages[c[2]].id] :
      c \in RunningCtls }

\* broker.publish(subject, data): gives <<sequence, history, subs>> after it.
Publish(state, subject, data) ==
    LET stored == Stored(state[1] + 1, subject, data)
    IN <<state[1] + 1, HistoryAppend(state[2], stored), PublishSubs(state[3], stored)>>

RECURSIVE PublishAll(_, _, _, _)
\* handleNotificationsOnly's loop: publish messages[k..] on one subject.
PublishAll(messages, k, subject, state) ==
    IF k > Len(messages) THEN state
    ELSE PublishAll(messages, k + 1, subject, Publish(state, subject, messages[k]))

isTerminal(data) == isJSONRPCResponse(data) \/ isJSONRPCError(data)

RECURSIVE StreamChannels(_, _, _, _)
\* The two streamChannel loops of handleGet run as far as the queues allow.
\* Both loops take the same number of event-loop turns per message, so they
\* alternate, the outbound loop (started first) going first; a response
\* or error is acknowledged without being written.
StreamChannels(events, outItems, inItems, turn) ==
    IF outItems = << >> /\ inItems = << >> THEN events
    ELSE LET fromOut == (turn = "outbound" /\ outItems # << >>) \/ inItems = << >>
             msg     == IF fromOut THEN Head(outItems) ELSE Head(inItems)
             written == IF isTerminal(msg.data) THEN events
                        ELSE Append(events, [id |-> msg.id, data |-> msg.data])
         IN StreamChannels(written,
                           IF fromOut THEN Tail(outItems) ELSE outItems,
                           IF fromOut THEN inItems ELSE Tail(inItems),
                           IF fromOut THEN "inbound" ELSE "outbound")

\* The open GET stream after its loops have run: <<bg, subs>>.
StreamRun(b, ss) ==
    IF b.pc # "open" THEN <<b, ss>>
    ELSE <<[b EXCEPT !.events = StreamChannels(b.events, ss[b.outboundSub].items,
                                               ss[b.inboundSub].items, "outbound")],
           Array([i \in DOMAIN ss |->
               IF i \in {b.outboundSub, b.inboundSub} THEN [ss[i] EXCEPT !.items = << >>]
               ELSE ss[i]])>>

\* The body handleJsonResponse ends with.
JsonBody(isBatch, responses) ==
    IF isBatch THEN ArrayBody(responses)
    ELSE ObjectBody(IF responses # << >> THEN responses[1] ELSE NoResponseMsg)

RECURSIVE JsonLoops(_, _, _, _)
\* The JSON-mode loops `for await (const msg of sub)` run as far as they can
\* (from the k-th on): each takes what its queue holds, acks, and on a
\* response or error collects it, unsubscribes and returns; a loop whose
\* queue is closed and empty returns; a loop whose queue is empty parks in
\* next().  Gives <<exchange, subs, activeSubs>>.
JsonLoops(h, ss, act, k) ==
    IF k > Len(h.subs) THEN <<h, ss, act>>
    ELSE LET i == h.subs[k]
             msg == Head(ss[i].items)
             taken == [ss[i] EXCEPT !.items = Tail(@)]
             requestId == StringOf(h.messages[RequestIndices(h.messages)[k]].id)
         IN IF k \in h.finished THEN JsonLoops(h, ss, act, k + 1)
            ELSE IF ss[i].items = << >>
            THEN JsonLoops(IF ss[i].unsubscribed THEN [h EXCEPT !.finished = @ \cup {k}] ELSE h,
                           ss, act, k + 1)
            ELSE IF isTerminal(msg.data)
            THEN JsonLoops([h EXCEPT !.responses = Append(@, msg.data),
                                     !.pendingRequestIds = PendingDelete(@, requestId),
                                     !.finished = @ \cup {k}],
                           [ss EXCEPT ![i] = Unsubscribe(taken)], act \ {i}, k + 1)
            ELSE JsonLoops(h, [ss EXCEPT ![i] = taken], act, k)

\* Step 3 of handleJsonResponse: the response timer is created, the loops
\* run, and when every loop has returned Promise.all wins the race and the
\* exchange ends with 200; otherwise it waits for a message or the timer.
JsonWait(h, ss, act) ==
    LET r == JsonLoops(h, ss, act, 1)
    IN IF r[1].finished = DOMAIN h.subs
       THEN <<Ended(r[1], 200, JsonBody(h.isBatch, r[1].responses)), r[2], r[3]>>
       ELSE <<[r[1] EXCEPT !.pc = "wait"], r[2], r[3]>>

RECURSIVE SseLoops(_, _, _, _)
\* The SSE-mode loops run as far as they can: each writes what its queue
\* holds as events (nothing reaches a client that has disconnected), acks,
\* and on a response or error unsubscribes and returns.
SseLoops(h, ss, act, k) ==
    IF k > Len(h.subs) THEN <<h, ss, act>>
    ELSE LET i == h.subs[k]
             msg == Head(ss[i].items)
             taken == [ss[i] EXCEPT !.items = Tail(@)]
             written == IF h.disconnected THEN h.events
                        ELSE Append(h.events, [id |-> msg.id, data |-> msg.data])
         IN IF k \in h.finished THEN SseLoops(h, ss, act, k + 1)
            ELSE IF ss[i].items = << >>
            THEN SseLoops(IF ss[i].unsubscribed THEN [h EXCEPT !.finished = @ \cup {k}] ELSE h,
                          ss, act, k + 1)
            ELSE IF isTerminal(msg.data)
            THEN SseLoops([h EXCEPT !.events = written,
                                    !.pendingRequestIds = PendingDelete(@, StringOf(msg.data.id)),
                                    !.finished = @ \cup {k}],
                          [ss EXCEPT ![i] = Unsubscribe(taken)], act \ {i}, k + 1)
            ELSE SseLoops([h EXCEPT !.events = written], [ss EXCEPT ![i] = taken], act, k)

\* Step 3 of handleSseResponse: the loops run; when every loop has returned
\* the finally block unsubscribes everything and ends the response.
SseStream(h, ss, act) ==
    LET r == SseLoops(h, ss, act, 1)
    IN IF r[1].finished = DOMAIN h.subs
       THEN <<Ended(r[1], 200, NoBody), UnsubscribeAll(r[2], SubIds(h)), r[3] \ SubIds(h)>>
       ELSE <<[r[1] EXCEPT !.pc = "stream"], r[2], r[3]>>

\* The exchange after messages[cur] has been handled: the next message, or
\* (deliverToProtocol returns) step 3 of the JSON or the SSE handler.
Proceed(h, ss, act) ==
    IF h.cur < Len(h.messages)
    THEN <<[h EXCEPT !.cur = h.cur + 1, !.pc = "deliver"], ss, act>>
    ELSE IF h.mode = "json" THEN JsonWait([h EXCEPT !.cur = h.cur + 1], ss, act)
    ELSE SseStream([h EXCEPT !.cur = h.cur + 1], ss, act)

\* Fault variant of ShouldEmit: the abort signal is not consulted.
ShouldEmit_Always(ctl, aborted) == TRUE

\* processRequest's `if (!controller.signal.aborted)`, on both the result
\* and the error path.
ShouldEmit(ctl, aborted) == ctl \notin aborted

\* The record of an envelope the engine passed to transport.send for
\* controller ctl.
SentEntry(ctl, message, sessionId, requestId) ==
    [ctl |-> ctl, message |-> message, sessionId |-> sessionId, requestId |-> requestId]

\* deliverToProtocol hands messages[cur] to messageHandler -> handleMessage.
\* A request with a handler leaves its handler running; everything else is
\* finished within this step.  After the last message of a body without
\* requests, handleNotificationsOnly publishes every message on
\* background-outbound and ends the exchange with 202.
EngineReceive(p) ==
    LET h   == http[p]
        m   == h.messages[h.cur]
        key == mapRequestKey(ConnId, h.sessionId, m.id)
        ctl == <<p, h.cur>>
        \* no handler: MethodNotFoundError is caught, the error envelope is
        \* sent, and the finally block deletes the entry
        notFound == ErrorMsg(m.id, "METHOD_NOT_FOUND", "Method not found")
        afterSend == Publish(<<sequence, history, subs>>,
                             SendSubject(notFound, h.sessionId, StringOf(m.id)), notFound)
        afterError == Proceed(h, afterSend[3], activeSubs)
        cancelled == IF isCancelledNotification(m)
                     THEN handleCancellation(incomingRequests, abortedCtl, ConnId,
                                             h.sessionId, m.requestId)
                     ELSE <<incomingRequests, abortedCtl>>
        published == PublishAll(h.messages, 1, BackgroundOutbound([sessionId |-> h.sessionId]),
                                <<sequence, history, subs>>)
        streamed == StreamRun(bg, published[3])
        afterOther == Proceed(h, subs, activeSubs)
        \* a response or error envelope: resolve / rejectWithError under the
        \* key of the exchange's session
        looksUp == isJSONRPCResponse(m) \/ (isJSONRPCError(m) /\ Truthy(m.id))
        settled == IF looksUp
                   THEN Settle(pendingRequests, outgoing, progressTokenIndex, key,
                               IF isJSONRPCError(m) THEN "error response"
                               ELSE "success response")
                   ELSE <<pendingRequests, outgoing, progressTokenIndex>>
    IN
    /\ h.pc = "deliver"
    /\ IF isJSONRPCRequest(m) /\ m.method \in RegisteredMethods
       THEN /\ incomingRequests' = MapSet(incomingRequests, key, ctl)
            /\ http' = [http EXCEPT ![p].pc = "handler"]
            /\ UNCHANGED <<sequence, history, subs, activeSubs, abortedCtl, sent, cancels, bg>>
       ELSE IF isJSONRPCRequest(m)
       THEN /\ sequence' = afterSend[1]
            /\ history' = afterSend[2]
            /\ sent' = Append(sent, SentEntry(ctl, notFound, h.sessionId, StringOf(m.id)))
            /\ incomingRequests' = MapDelete(incomingRequests, key)
            /\ http' = [http EXCEPT ![p] = afterError[1]]
            /\ subs' = afterError[2]
            /\ activeSubs' = afterError[3]
            /\ UNCHANGED <<abortedCtl, cancels, bg>>
       ELSE /\ incomingRequests' = cancelled[1]
            /\ abortedCtl' = cancelled[2]
            /\ cancels' = IF isCancelledNotification(m)
                          THEN cancels \cup CancelObservations(ConnId, h.sessionId, m.requestId)
                          ELSE cancels
            /\ sent' = sent
            /\ IF h.mode = "none" /\ h.cur = Len(h.messages)
               THEN /\ sequence' = published[1]
                    /\ history' = published[2]
                    /\ bg' = streamed[1]
                    /\ subs' = streamed[2]
                    /\ activeSubs' = activeSubs
                    /\ http' = [http EXCEPT ![p] = Ended(h, 202, NoBody)]
               ELSE /\ http' = [http EXCEPT ![p] = afterOther[1]]
                    /\ subs' = afterOther[2]
                    /\ activeSubs' = afterOther[3]
                    /\ UNCHANGED <<sequence, history, bg>>
    /\ UNCHANGED sessionVars
    /\ hooks' = IF isJSONRPCNotification(m) /\ m.method \in NotificationHandlers
                THEN Append(hooks, [hook |-> "onReady", sessionId |-> h.sessionId])
                ELSE hooks
    /\ pendingRequests' = settled[1]
    /\ outgoing' = settled[2]
    /\ progressTokenIndex' = settled[3]
    /\ received' = IF isTerminal(m)
                   THEN [count |-> received.count + 1, sessionId |-> Defined(h.sessionId),
                         id |-> m.id, isError |-> isJSONRPCError(m),
                         target |-> Registered(Defined(h.sessionId), m.id),
                         awaited |-> Awaited(Defined(h.sessionId), m.id),
                         completed |-> IF looksUp /\ MapHas(pendingRequests, key)
                                       THEN MapGet(pendingRequests, key) ELSE 0]
                   ELSE received
    /\ UNCHANGED <<topicVars, facade, progressed, chained, mapped, rrIndex, server, handlers, registered, routed, engineClosed,
                   connections, disconnectedTransports, notified, reply, deleted>>

\* The running handler settles (returns a result or throws): processRequest
\* sends the envelope unless the controller is aborted, then deletes the
\* table entry in its finally block; deliverToProtocol goes on.
HandlerSettle(p, outcome) ==
    LET h   == http[p]
        m   == h.messages[h.cur]
        key == mapRequestKey(ConnId, h.sessionId, m.id)
        ctl == <<p, h.cur>>
        envelope == IF outcome = "result" THEN ResultMsg(m.id, ctl)
                    ELSE ErrorMsg(m.id, "INTERNAL_ERROR", "handler threw")
        emits == ShouldEmit(ctl, abortedCtl)
        afterSend == IF emits
                     THEN Publish(<<sequence, history, subs>>,
                                  SendSubject(envelope, h.sessionId, StringOf(m.id)), envelope)
                     ELSE <<sequence, history, subs>>
        after == Proceed(h, afterSend[3], activeSubs)
    IN
    /\ h.pc = "handler"
    /\ sequence' = afterSend[1]
    /\ history' = afterSend[2]
    /\ sent' = IF emits THEN Append(sent, SentEntry(ctl, envelope, h.sessionId, StringOf(m.id)))
               ELSE sent
    /\ incomingRequests' = MapDelete(incomingRequests, key)
    /\ http' = [http EXCEPT ![p] = after[1]]
    /\ subs' = after[2]
    /\ activeSubs' = after[3]
    /\ UNCHANGED <<sessionVars, abortedCtl, cancels>>
    /\ UNCHANGED restOfPost

\* A notifications/cancelled reaches the engine on another connection,
\* naming the session and the request id of the handler running for slot q.
OtherConnectionCancel(q) ==
    LET sessionId == http[q].sessionId
        requestId == http[q].messages[http[q].cur].id
        cancelled == handleCancellation(incomingRequests, abortedCtl, OtherConnId,
                                        sessionId, requestId)
    IN
    /\ http[q].pc = "handler"
    /\ CancelObservations(OtherConnId, sessionId, requestId) \ cancels # {}
    /\ incomingRequests' = cancelled[1]
    /\ abortedCtl' = cancelled[2]
    /\ cancels' = cancels \cup CancelObservations(OtherConnId, sessionId, requestId)
    /\ UNCHANGED <<sessionVars, brokerVars, postVars, sent>>
    /\ UNCHANGED restOfPost

\* The response timer fires while a loop is parked in next(): unsubscribe
\* everything, add a "Request timeout" error per id still pending, respond.
JsonTimeout(p) ==
    LET h == http[p]
        timeouts == Array([j \in DOMAIN h.pendingRequestIds |->
                        RequestTimeoutMsg(h.pendingRequestIds[j].id)])
    IN
    /\ h.pc = "wait"
    /\ subs' = UnsubscribeAll(subs, SubIds(h))
    /\ activeSubs' = activeSubs \ SubIds(h)
    /\ http' = [http EXCEPT ![p] = Ended(h, 200, JsonBody(h.isBatch, h.responses \o timeouts))]
    /\ UNCHANGED <<sessionVars, sequence, history, engineInVars>>
    /\ UNCHANGED restOfPost

\* The client closes the connection of an SSE exchange in flight; the
\* listener handleSseResponse registered with req.on("close") unsubscribes
\* the exchange's subscriptions and removes them from activeSubs.  Loops
\* parked in next() then find their queues closed and return.  (The JSON
\* handler registers no listener.)
ClientDisconnect(p) ==
    LET h  == [http[p] EXCEPT !.disconnected = TRUE]
        ss == UnsubscribeAll(subs, SubIds(h))
        after == IF h.pc = "stream" THEN SseStream(h, ss, activeSubs \ SubIds(h))
                 ELSE <<h, ss, activeSubs \ SubIds(h)>>
    IN
    /\ h.pc \in {"ready", "deliver", "handler", "stream"}
    /\ h.mode = "sse"
    /\ ~http[p].disconnected
    /\ http' = [http EXCEPT ![p] = after[1]]
    /\ subs' = after[2]
    /\ activeSubs' = after[3]
    /\ UNCHANGED <<sessionVars, sequence, history, engineInVars>>
    /\ UNCHANGED restOfPost

-----------------------------------------------------------------------------
(* Initial states of each part                                             *)

SessionInit(store) ==
    /\ storeConfigured = store
    /\ sessions = {}
    /\ uuidCount = 0

BrokerInit ==
    /\ sequence = 0
    /\ history = << >>
    /\ subs = << >>
    /\ rrIndex = {}

\* The HTTP server listening, disconnect() not called: pc is how far
\* disconnect() is, onClose counts the calls of the on-close hook, cleared
\* is how many subscriptions existed when activeSubs.clear() ran.
Listening == [pc |-> "listening", onClose |-> 0, cleared |-> 0]

PostInit ==
    /\ server = Listening
    /\ hooks = << >>
    /\ facade = << >>
    /\ handlers = InitialHandlers
    /\ registered = << >>
    /\ routed = << >>
    /\ activeSubs = {}
    /\ http = Array([p \in Slots |-> IdleHttp])

EngineInInit ==
    /\ incomingRequests = {}
    /\ abortedCtl = {}
    /\ sent = << >>
    /\ cancels = {}

\* No triple has been mapped to a key yet.
NoKeys == [a |-> << >>, b |-> << >>, keyA |-> << >>, keyB |-> << >>]

\* No HTTP request has passed the middleware chain yet.
NoChain == [chain |-> << >>, idx |-> 0, ended |-> FALSE, unhandled |-> FALSE,
            status |-> 0, handler |-> "none"]

\* No progress notification received yet.
NoProgress == [sessionId |-> Undefined, token |-> NoId, targets |-> {}, invoked |-> {}]

\* No envelope received yet.
NoEnvelope ==
    [count |-> 0, sessionId |-> Undefined, id |-> NoId, isError |-> FALSE,
     target |-> 0, awaited |-> 0, completed |-> 0]

EngineOutInit ==
    /\ pendingRequests = {}
    /\ received = NoEnvelope
    /\ progressed = NoProgress
    /\ chained = NoChain
    /\ mapped = NoKeys
    /\ outgoing = << >>
    /\ engineClosed = FALSE
    /\ progressTokenIndex = {}
    /\ connections = {ConnId, OtherConnId}
    /\ disconnectedTransports = {}
    /\ notified = << >>

\* No GET stream is open.
IdleBg ==
    [pc |-> "idle", sessionId |-> << >>, lastEventId |-> Undefined,
     outboundSub |-> 0, inboundSub |-> 0, events |-> << >>]

\* No DELETE or GET was answered.
NoReply ==
    [verb |-> "", named |-> Undefined, acceptOk |-> FALSE, status |-> 0,
     afterDelete |-> FALSE]

GetInit ==
    /\ bg = IdleBg
    /\ reply = NoReply
    /\ deleted = {}

-----------------------------------------------------------------------------
(* Spec: POST exchanges through the transport, the broker and the engine.  *)

Init ==
    /\ topicA = [family |-> "none", sessionId |-> << >>, requestId |-> << >>, subject |-> << >>]
    /\ topicB = topicA
    /\ SessionInit(TRUE)
    /\ BrokerInit
    /\ PostInit
    /\ EngineInInit
    /\ EngineOutInit
    /\ GetInit

\* One step of the program: an exchange arrives with one of the bodies at
\* a broker of one of the backends, or an exchange in progress moves on.
Step(bodies, backends) ==
    \/ \E p \in Slots, accept \in AcceptHeaders, hdr \in SessionHeaders,
          body \in bodies, backend \in backends : PostArrive(p, accept, hdr, body, backend)
    \/ \E p \in Slots : PostReady(p)
    \/ \E p \in Slots : ReadyFault(p)
    \/ \E p \in Slots : EngineReceive(p)
    \/ \E p \in Slots, outcome \in {"result", "throw"} : HandlerSettle(p, outcome)
    \/ \E q \in Slots : OtherConnectionCancel(q)
    \/ \E p \in Slots : JsonTimeout(p)
    \/ \E p \in Slots : ClientDisconnect(p)

Next == Step(PostBodies, Backends)

Spec == Init /\ [][Next]_vars

-----------------------------------------------------------------------------
(* SpecTopics: the topic constructors applied to bounded sets of ids.      *)

\* Session ids and request ids the constructors are applied to.  Request ids
\* are chosen by the client (String(request.id)); session ids come from the
\* session manager or, without one, from the Mcp-Session-Id header.
TopicSessionIds == { <<"s">>, <<"t">>, <<"s", ".", "t">> }
TopicRequestIds == { <<"1">>, Str_bg, <<"t", ".", "1">> }

NoTopic == [family |-> "none", sessionId |-> <<>>, requestId |-> <<>>, subject |-> <<>>]

BuiltRequestScoped(family, s, r) ==
    [family |-> family, sessionId |-> s, requestId |-> r,
     subject |-> TopicSubject(family, [sessionId |-> s, requestId |-> r])]

BuiltSessionScoped(family, s) ==
    [family |-> family, sessionId |-> s, requestId |-> <<>>,
     subject |-> TopicSubject(family, [sessionId |-> s])]

TopicsInit ==
    /\ topicA = NoTopic
    /\ topicB = NoTopic
    /\ SessionInit(FALSE)
    /\ BrokerInit
    /\ PostInit
    /\ EngineInInit
    /\ EngineOutInit
    /\ GetInit

BuildRequestScopedA ==
    \E f \in RequestScopedFamilies, s \in TopicSessionIds, r \in TopicRequestIds :
        /\ topicA' = BuiltRequestScoped(f, s, r)
        /\ UNCHANGED <<topicB, restOfTopics>>

BuildSessionScopedA ==
    \E f \in SessionScopedFamilies, s \in TopicSessionIds :
        /\ topicA' = BuiltSessionScoped(f, s)
        /\ UNCHANGED <<topicB, restOfTopics>>

BuildRequestScopedB ==
    \E f \in RequestScopedFamilies, s \in TopicSessionIds, r \in TopicRequestIds :
        /\ topicB' = BuiltRequestScoped(f, s, r)
        /\ UNCHANGED <<topicA, restOfTopics>>

BuildSessionScopedB ==
    \E f \in SessionScopedFamilies, s \in TopicSessionIds :
        /\ topicB' = BuiltSessionScoped(f, s)
        /\ UNCHANGED <<topicA, restOfTopics>>

TopicsNext ==
    \/ BuildRequestScopedA
    \/ BuildSessionScopedA
    \/ BuildRequestScopedB
    \/ BuildSessionScopedB

SpecTopics == TopicsInit /\ [][TopicsNext]_vars

\* C8: topic subject construction is injective and collision-free across
\* families: two built subjects are equal only when they come from the same
\* constructor with the same parameters (so no request-scoped subject equals
\* a background subject).
C8_SubjectsInjective ==
    (topicA.family # "none" /\ topicB.family # "none" /\ topicA.subject = topicB.subject)
        => (topicA.family = topicB.family
            /\ topicA.sessionId = topicB.sessionId
            /\ topicA.requestId = topicB.requestId)

-----------------------------------------------------------------------------
(* Properties of the POST pipeline (Spec)                                  *)

Posts == { p \in Slots : http[p].verb = "POST" }

\* The k-th request of exchange p, and the subscription opened for it.
RequestOf(p, k) == http[p].messages[RequestIndices(http[p].messages)[k]]
SubOf(p, k)     == subs[http[p].subs[k]]

\* The exchange is past its subscribe loop and awaiting ready, delivering,
\* or collecting.
InFlight(p) == http[p].pc \in {"ready", "deliver", "handler", "wait", "stream"}

\* messages[i] has been handed to the engine.
Handed(p, i) ==
    \/ i < http[p].cur
    \/ i = http[p].cur /\ http[p].pc = "handler"

\* The POST has exited: its handler returned or its client is gone.
Exited(p) == http[p].pc = "done" \/ http[p].disconnected

\* Every event published on the subscription's subject since it went live
\* was accepted by its queue.
NothingLost(sub) ==
    \A e \in DOMAIN history :
        history[e].subject = sub.pattern =>
            \A j \in DOMAIN history[e].messages :
                NumberOf(history[e].messages[j].id).value > sub.liveSeq =>
                    \E g \in DOMAIN sub.got : sub.got[g] = history[e].messages[j].id

\* C1: for every request R of a POST (JSON or SSE), the subscription on
\* request-outbound(session, R.id) is open, ready and in activeSubs before R
\* is handed to the engine and until a terminal message for R is received or
\* the POST exits, and no event published on the subject meanwhile is lost.
C1_SubscribedBeforeDelivery ==
    \A p \in Posts : \A k \in DOMAIN http[p].subs :
        (http[p].pc \in {"deliver", "handler", "wait", "stream"}
            /\ ~Exited(p) /\ k \notin http[p].finished)
        => /\ http[p].subs[k] \in activeSubs
           /\ ~SubOf(p, k).unsubscribed
           /\ SubOf(p, k).ready
           /\ SubOf(p, k).pattern =
                  RequestOutbound([sessionId |-> http[p].sessionId,
                                   requestId |-> StringOf(RequestOf(p, k).id)])
           /\ NothingLost(SubOf(p, k))

\* The first request of a batch was answered while the handler of the second
\* is still running: its response sits in the subscription's queue.
C1_Witness ==
    \E p \in Posts :
        /\ http[p].pc = "handler"
        /\ http[p].cur = 2
        /\ ~Exited(p)
        /\ SubOf(p, 1).items # << >>
        /\ isJSONRPCResponse(SubOf(p, 1).items[1].data)

\* The incoming requests the engine has dispatched, as controllers.
Dispatched ==
    { <<p, i>> : p \in Posts, i \in 1..2 } \cap
    UNION { { <<p, i>> : i \in { j \in DOMAIN http[p].messages :
                                    isJSONRPCRequest(http[p].messages[j]) /\ Handed(p, j) } } :
            p \in Posts }

\* processRequest has returned for the request.
Processed(c) == c[2] < http[c[1]].cur

\* The envelopes emitted on the connection that carry the request's id (in
\* the request's session).
EnvelopesFor(c) ==
    { n \in DOMAIN sent :
        /\ sent[n].sessionId = http[c[1]].sessionId
        /\ sent[n].message.id = http[c[1]].messages[c[2]].id }

\* A cancellation naming the request was processed on its connection and
\* session while its handler was running.
Cancelled(c) ==
    \E o \in cancels : o.ctl = c /\ o.sameConnection /\ o.sameSession /\ o.sameId

C4_UnsubscribedOnExit ==
    \A p \in Posts :
        Exited(p) =>
            \A k \in DOMAIN http[p].subs :
                /\ http[p].subs[k] \notin activeSubs
                /\ SubOf(p, k).unsubscribed

\* The envelopes the engine sent with the routing of one of p's requests.
RoutedTo(p) ==
    { n \in DOMAIN sent :
        /\ sent[n].ctl[1] = p
        /\ sent[n].sessionId = http[p].sessionId
        /\ sent[n].requestId = StringOf(http[p].messages[sent[n].ctl[2]].id) }

\* What the client of exchange p was given: the JSON body's messages or the
\* SSE events' data.
Output(p) ==
    IF http[p].mode = "sse"
    THEN { http[p].events[j].data : j \in DOMAIN http[p].events }
    ELSE { http[p].body.items[j] : j \in DOMAIN http[p].body.items }

\* C6: a response the engine emitted with the routing {sessionId, requestId}
\* of a request of a POST is in that POST's output once the POST has ended
\* (the JSON body, or an SSE event); the body of a non-batch JSON POST is
\* that one response and nothing else.
C6_ResponseReachesPost ==
    \A p \in Posts :
        (http[p].pc = "done" /\ http[p].status = 200 /\ ~http[p].disconnected
            /\ http[p].mode \in {"json", "sse"})
        => /\ \A n \in RoutedTo(p) : sent[n].message \in Output(p)
           /\ (http[p].mode = "json" /\ ~http[p].isBatch) =>
                 \A n \in RoutedTo(p) : http[p].body = ObjectBody(sent[n].message)

\* C7: a cancellation naming X that arrives on X's connection and session
\* while X's handler runs leaves X without any envelope, ever; a
\* cancellation that differs in connection, session or id does not affect
\* the request: it is answered by exactly one envelope.
C7_CancelSuppressesOnlyItsRequest ==
    \A c \in Dispatched :
        /\ Cancelled(c) => EnvelopesFor(c) = {}
        /\ (Processed(c) /\ ~Cancelled(c) /\ \E o \in cancels : o.ctl = c)
              => Cardinality(EnvelopesFor(c)) = 1

-----------------------------------------------------------------------------
(* Liveness of a JSON POST                                                  *)

\* The scheduling the runtime guarantees: a timer that was armed fires, a
\* message handed to the engine is received, a backend acknowledges a
\* subscription.  Nothing obliges a request handler (application code) to
\* settle, nor a client to act.
\* The exchanges of the liveness check: a request, a streaming request and
\* a cancellation, at a backend that acknowledges subscriptions
\* asynchronously.
LiveBodies == { Single(RequestMsg(NumId(1), "ping")),
                Single(RequestMsg(StrId(<<"1">>), "tools/call")),
                Single(NotificationMsg("notifications/cancelled", NumId(1))) }

LiveNext == Step(LiveBodies, {"remote"})

SpecLive ==
    /\ Init
    /\ [][LiveNext]_vars
    /\ \A p \in Slots : WF_vars(JsonTimeout(p))
    /\ \A p \in Slots : WF_vars(EngineReceive(p))
    /\ \A p \in Slots : WF_vars(PostReady(p))

\* C5: a JSON-mode POST whose requests were handed to the engine always
\* completes: a request without a terminal message is answered with the
\* Request timeout error once the response timeout has passed.
C5_JsonPostCompletes ==
    \A p \in Slots :
        (http[p].mode = "json" /\ http[p].pc = "handler") ~> (http[p].pc = "done")

-----------------------------------------------------------------------------
(* The protocol engine's outgoing side (connection.ts)                      *)

MaxOutgoing == 3      \* messages passed to Protocol.send in one behaviour
MaxAge      == 5      \* ticks a pending request is followed for
MaxTotal    == 3      \* the maxTotalTimeout of timed requests, in ticks
MaxReceived == 3      \* envelopes the engine receives in one behaviour

\* options.route.sessionId as the template literal prints it.
SessionString(session) == IF session.present THEN session.value ELSE Str_undefined

\* The sessions the server addresses its requests to.
EngineSessions == { Undefined, Defined(Uuid(1)) }

\* `${connectionId}:${sessionId}:${progressToken}`
mapProgressKey(connectionId, sessionId, progressToken) ==
    connectionId \o Str_colon \o sessionId \o Str_colon \o StringOf(progressToken)

\* RequestOptions of a send: signal is the state of options.signal when send
\* is called ("none" when there is no signal), timeout is in ticks.
PlainOptions ==
    [signal |-> "none", onProgress |-> FALSE, progressToken |-> NoId,
     resetTimeoutOnProgress |-> FALSE, timeout |-> 2, maxTotalTimeout |-> Undefined]

EngineOptions ==
    { PlainOptions,
      [PlainOptions EXCEPT !.signal = "live", !.onProgress = TRUE,
                           !.progressToken = NumId(1)],
      [PlainOptions EXCEPT !.signal = "aborted", !.onProgress = TRUE,
                           !.progressToken = NumId(2)] }

\* The options object Protocol.send hands to transport.send: on the request
\* path a fresh { sessionId }, on the notification path the caller's
\* RequestOptions itself, whose session id is under route.
RequestSendOptions(session) == [sessionId |-> session]
NotificationSendOptions(session) == [route |-> [sessionId |-> session]]

\* transport.send's `options?.sessionId` and its `if (!sessionId) throw`.
OptionsSessionId(o) == IF "sessionId" \in DOMAIN o THEN o.sessionId ELSE Undefined
TransportAccepts(o) == OptionsSessionId(o).present /\ OptionsSessionId(o).value # << >>

\* Protocol.send, request path: the abort listener is added to
\* options.signal (a signal already aborted never runs it), the entry is
\* stored under the key (replacing an entry already there), the progress
\* token is indexed, the timer is armed, transport.send publishes the
\* request on background-inbound; transport.send throws without a session
\* id and the catch block rejects the entry under the key.  The caller never
\* uses a JSON-RPC id twice within a session.
EngineSend(session, id, options) ==
    LET n   == Len(outgoing) + 1
        key == mapRequestKey(ConnId, SessionString(session), id)
        request == RequestMsg(id, "ping")
        rec == [sessionId |-> session, id |-> id, key |-> key,
                signal |-> options.signal, options |-> options,
                timer |-> "armed", remaining |-> options.timeout, age |-> 0,
                completions |-> 0, kind |-> "none"]
        table1 == MapSet(pendingRequests, key, n)
        out1   == Append(outgoing, rec)
        index1 == IF options.onProgress /\ Truthy(options.progressToken)
                  THEN MapSet(progressTokenIndex,
                              mapProgressKey(ConnId, SessionString(session),
                                             options.progressToken), key)
                  ELSE progressTokenIndex
        published == Publish(<<sequence, history, subs>>,
                             SendSubject(request, session.value, << >>), request)
        streamed == StreamRun(bg, published[3])
        failed == Settle(table1, out1, index1, key, "send failure")
    IN
    /\ ~engineClosed
    /\ Len(outgoing) < MaxOutgoing
    /\ \A m \in DOMAIN outgoing : outgoing[m].sessionId = session => outgoing[m].id # id
    /\ IF TransportAccepts(RequestSendOptions(session))
       THEN /\ pendingRequests' = table1
            /\ outgoing' = out1
            /\ progressTokenIndex' = index1
            /\ sequence' = published[1]
            /\ history' = published[2]
            /\ bg' = streamed[1]
            /\ subs' = streamed[2]
       ELSE /\ pendingRequests' = failed[1]
            /\ outgoing' = failed[2]
            /\ progressTokenIndex' = failed[3]
            /\ UNCHANGED <<sequence, history, subs, bg>>
    /\ UNCHANGED <<topicVars, facade, progressed, chained, mapped, rrIndex, server, hooks, handlers, registered, routed, received, sessionVars, postVars, engineInVars, engineClosed,
                   reply, deleted, connections, disconnectedTransports, notified>>

\* Methods of the notifications the server sends.
ServerNotificationMethods == { "notifications/message", "notifications/resources/updated" }

\* Protocol.send, notification path: transport.send is called with the
\* caller's RequestOptions; when it accepts them the notification is
\* published on background-outbound, otherwise it throws to the caller.
\* stream is the GET stream open for the session at that moment (0: none).
EngineNotify(session, method) ==
    LET message == NotificationMsg(method, NoId)
        o == NotificationSendOptions(session)
        accepted == TransportAccepts(o)
        published == Publish(<<sequence, history, subs>>,
                             SendSubject(message, OptionsSessionId(o).value, << >>), message)
        streamed == StreamRun(bg, published[3])
        stream == IF bg.pc = "open" /\ session.present /\ bg.sessionId = session.value
                  THEN bg.outboundSub ELSE 0
    IN
    /\ ~engineClosed
    /\ Len(notified) < MaxOutgoing
    /\ notified' = Append(notified, [sessionId |-> session, message |-> message,
                                     stream |-> stream, threw |-> ~accepted])
    /\ IF accepted
       THEN /\ sequence' = published[1]
            /\ history' = published[2]
            /\ bg' = streamed[1]
            /\ subs' = streamed[2]
       ELSE UNCHANGED <<sequence, history, subs, bg>>
    /\ UNCHANGED <<topicVars, facade, progressed, chained, mapped, rrIndex, server, hooks, handlers, registered, routed, received, sessionVars, postVars, engineInVars, pendingRequests,
                   outgoing, engineClosed, progressTokenIndex, connections,
                   disconnectedTransports, reply, deleted>>

\* handleMessage for a response or an error envelope from the client:
\* resolve settles the entry under the key, if there is one; rejectWithError
\* does so only `if (requestId)`.  received keeps the envelope, the request
\* that was registered for its session and id (target) and the request the
\* engine completed (completed).
EngineResponse(session, id, isError) ==
    LET key == mapRequestKey(ConnId, SessionString(session), id)
        looksUp == ~isError \/ Truthy(id)
        settled == IF looksUp
                   THEN Settle(pendingRequests, outgoing, progressTokenIndex, key,
                               IF isError THEN "error response" ELSE "success response")
                   ELSE <<pendingRequests, outgoing, progressTokenIndex>>
    IN
    /\ ~engineClosed
    /\ received.count < MaxReceived
    /\ received' = [count |-> received.count + 1, sessionId |-> session, id |-> id,
                    isError |-> isError, target |-> Registered(session, id),
                    awaited |-> Awaited(session, id),
                    completed |-> IF looksUp /\ MapHas(pendingRequests, key)
                                  THEN MapGet(pendingRequests, key) ELSE 0]
    /\ pendingRequests' = settled[1]
    /\ outgoing' = settled[2]
    /\ progressTokenIndex' = settled[3]
    /\ UNCHANGED <<topicVars, facade, progressed, chained, mapped, rrIndex, server, hooks, handlers, registered, routed, sessionVars, brokerVars, postVars, engineInVars,
                   engineClosed, getVars, connections, disconnectedTransports, notified>>

\* The requests passed to send with onProgress and exactly this progress
\* token for this session whose futures have not been settled.
ProgressTargets(session, token) ==
    { n \in DOMAIN outgoing :
        /\ outgoing[n].sessionId = session
        /\ outgoing[n].completions = 0
        /\ outgoing[n].options.onProgress
        /\ outgoing[n].options.progressToken = token }

\* handleProgress for a progress notification from the client: the index
\* gives the request key, the entry's onProgress runs, and with
\* resetTimeoutOnProgress resetTimeout re-arms the timer of the entry under
\* the key for the full timeout.  progressed keeps the notification, the
\* requests it was for (targets) and the request whose callback ran.
EngineProgress(session, token) ==
    LET progressKey == mapProgressKey(ConnId, SessionString(session), token)
        indexed == MapHas(progressTokenIndex, progressKey)
        requestKey == MapGet(progressTokenIndex, progressKey)
        pending == indexed /\ MapHas(pendingRequests, requestKey)
        n == MapGet(pendingRequests, requestKey)
        runs == pending /\ outgoing[n].options.onProgress
    IN
    /\ ~engineClosed
    /\ progressed' = [sessionId |-> session, token |-> token,
                      targets |-> ProgressTargets(session, token),
                      invoked |-> IF runs THEN {n} ELSE {}]
    /\ outgoing' = IF runs /\ outgoing[n].options.resetTimeoutOnProgress
                   THEN [outgoing EXCEPT ![n].timer = "armed",
                                         ![n].remaining = outgoing[n].options.timeout]
                   ELSE outgoing
    /\ UNCHANGED <<topicVars, chained, mapped, facade, rrIndex, server, hooks, handlers, registered, routed, received,
                   sessionVars, brokerVars, postVars, engineInVars,
                   pendingRequests, engineClosed, getVars, engineAuxVars>>

\* The timer armed by setupTimeout for request n fires: its callback looks the
\* key up again and rejects whatever entry is stored under it now.
TimerFires(n) ==
    LET out1 == [outgoing EXCEPT ![n].timer = "fired"]
        settled == Settle(pendingRequests, out1, progressTokenIndex,
                          outgoing[n].key, "timeout")
    IN
    /\ outgoing[n].timer = "armed"
    /\ pendingRequests' = settled[1]
    /\ outgoing' = settled[2]
    /\ progressTokenIndex' = settled[3]
    /\ UNCHANGED <<topicVars, facade, progressed, chained, mapped, rrIndex, server, hooks, handlers, registered, routed, received, sessionVars, brokerVars, postVars, engineInVars,
                   engineClosed, getVars, connections, disconnectedTransports, notified>>

\* options.signal of request n aborts: the listener registered by send
\* rejects whatever entry is stored under the request's key.
ExternalAbort(n) ==
    LET out1 == [outgoing EXCEPT ![n].signal = "aborted"]
        settled == Settle(pendingRequests, out1, progressTokenIndex,
                          outgoing[n].key, "external cancel")
    IN
    /\ outgoing[n].signal = "live"
    /\ pendingRequests' = settled[1]
    /\ outgoing' = settled[2]
    /\ progressTokenIndex' = settled[3]
    /\ UNCHANGED <<topicVars, facade, progressed, chained, mapped, rrIndex, server, hooks, handlers, registered, routed, received, sessionVars, brokerVars, postVars, engineInVars,
                   engineClosed, getVars, connections, disconnectedTransports, notified>>

\* Options of a request whose timer progress restarts, with a cap on the
\* total wait (in ticks).
TimedOptions(token) ==
    [PlainOptions EXCEPT !.onProgress = TRUE, !.progressToken = token,
                         !.resetTimeoutOnProgress = TRUE,
                         !.maxTotalTimeout = Defined(MaxTotal)]
TimerOptions == { TimedOptions(NumId(1)), TimedOptions(NumId(2)), PlainOptions }

\* One unit of time passes: every request not yet completed is one tick
\* older and every armed timer has one tick less to run.  Timers run on
\* time: no time passes while a timer is due.
Tick ==
    /\ \E n \in DOMAIN outgoing : outgoing[n].completions = 0
    /\ \A n \in DOMAIN outgoing :
          /\ outgoing[n].age < MaxAge
          /\ outgoing[n].timer = "armed" => outgoing[n].remaining > 0
    /\ outgoing' = Array([n \in DOMAIN outgoing |->
                      [outgoing[n] EXCEPT
                          !.age = IF outgoing[n].completions = 0 THEN @ + 1 ELSE @,
                          !.remaining = IF outgoing[n].timer = "armed" THEN @ - 1 ELSE @]])
    /\ UNCHANGED <<topicVars, facade, progressed, chained, mapped, rrIndex, server, hooks, handlers, registered, routed, received, sessionVars, brokerVars, postVars, engineInVars,
                   pendingRequests, engineClosed, getVars, engineAuxVars>>

\* The setTimeout callback of request n runs when its delay has elapsed.
TimerDue(n) ==
    /\ outgoing[n].remaining = 0
    /\ TimerFires(n)

\* SpecTimer: requests are sent, the client sends progress notifications and
\* responses, time passes and timers run when they are due.
TimerNext ==
    \/ \E id \in RequestIds, options \in TimerOptions :
          EngineSend(Defined(Uuid(1)), id, options)
    \/ \E token \in {NumId(1), NumId(2)} : EngineProgress(Defined(Uuid(1)), token)
    \/ \E id \in RequestIds : EngineResponse(Defined(Uuid(1)), id, FALSE)
    \/ Tick
    \/ \E n \in DOMAIN outgoing : TimerDue(n)

SpecTimer == Init /\ [][TimerNext]_vars

RECURSIVE CloseAll(_, _)
\* Protocol.close's loop over pendingRequests.
CloseAll(table, out) ==
    IF table = {} THEN out
    ELSE LET e == CHOOSE x \in table : TRUE
         IN CloseAll(table \ {e}, Settle({e}, out, {}, e.key, "connection closed")[2])

\* Protocol.close: every pending request is rejected with
\* ConnectionClosedError, every incoming request's controller is aborted,
\* every connection is closed (its transport disconnected: the HTTP
\* transport unsubscribes its active subscriptions, which ends the open
\* GET stream), and the four tables are emptied.
EngineClose ==
    /\ ~engineClosed
    /\ engineClosed' = TRUE
    /\ outgoing' = CloseAll(pendingRequests, outgoing)
    /\ pendingRequests' = {}
    /\ progressTokenIndex' = {}
    /\ abortedCtl' = abortedCtl \cup { e.val : e \in incomingRequests }
    /\ incomingRequests' = {}
    /\ disconnectedTransports' = disconnectedTransports \cup connections
    /\ connections' = {}
    /\ subs' = UnsubscribeAll(subs, activeSubs)
    /\ activeSubs' = {}
    /\ bg' = IF bg.pc = "open" THEN [bg EXCEPT !.pc = "closed"] ELSE bg
    /\ server' = [pc |-> "closed", onClose |-> server.onClose + 1, cleared |-> Len(subs)]
    /\ UNCHANGED <<topicVars, facade, progressed, chained, mapped, rrIndex, hooks, handlers, registered, routed, received, sessionVars, sequence, history, http, sent, cancels,
                   reply, deleted, notified>>

EngineNext ==
    \/ \E session \in EngineSessions, id \in RequestIds, options \in EngineOptions :
          EngineSend(session, id, options)
    \/ \E session \in EngineSessions, id \in RequestIds, isError \in BOOLEAN :
          EngineResponse(session, id, isError)
    \/ \E n \in DOMAIN outgoing : TimerFires(n)
    \/ \E n \in DOMAIN outgoing : ExternalAbort(n)
    \/ EngineClose

SpecEngine == Init /\ [][EngineNext]_vars

\* SpecEngineLive: the same engine with the event loop's guarantee that a
\* timer armed by setTimeout and not cleared runs its callback.
SpecEngineLive ==
    /\ Init
    /\ [][EngineNext]_vars
    /\ \A n \in 1..MaxOutgoing : WF_vars(n \in DOMAIN outgoing /\ TimerFires(n))

\* Request n is in the pending table.
InTable(n) == \E e \in pendingRequests : e.val = n

ClaimedKinds ==
    {"success response", "error response", "timeout", "external cancel", "connection closed"}

\* C2: every outgoing request is completed exactly once, by a success
\* response, an error response, its timeout, an external cancel or the
\* connection-close rejection, and leaves the pending table exactly then:
\* while it is in the table it has no completion, and once it is out of the
\* table it has exactly one, of one of the five kinds.
C2_CompletedExactlyOnce ==
    \A n \in DOMAIN outgoing :
        /\ outgoing[n].completions <= 1
        /\ InTable(n) => outgoing[n].completions = 0
        /\ ~InTable(n) => /\ outgoing[n].completions = 1
                          /\ outgoing[n].kind \in ClaimedKinds

-----------------------------------------------------------------------------
(* The transport's GET and DELETE handlers (transport.ts)                   *)

DEFAULT_ENABLE_BACKGROUND_CHANNEL == TRUE
DEFAULT_ENABLE_SESSION_TERMINATION == TRUE

\* Last-Event-ID request headers.
LastEventIds == { Undefined, Defined(<<"0">>), Defined(<<"1">>), Defined(<<"x">>) }

\* Fault variant of SessionDelete: the store keeps the session.
SessionDelete_Keep(store, sessionId) == store

\* InMemorySessionManager.delete
SessionDelete(store, sessionId) == store \ {sessionId}

\* The session ids randomUUID() has produced so far.
Minted == { Uuid(k) : k \in 1..uuidCount }

\* handleGet: 405 / 406 / 400 / 404, or the background stream opens: both
\* subscriptions are created with fromEventId = Last-Event-ID (the broker
\* replays into their queues) and the two streamChannel loops start.
GetArrive(accept, hdr, lastEventId) ==
    LET sr == getExistingSession(hdr)
        status == IF ~DEFAULT_ENABLE_BACKGROUND_CHANNEL THEN 405
                  ELSE IF ~acceptsSse(accept) THEN 406
                  ELSE IF ~sr.success THEN sr.status
                  ELSE 200
        answer == [verb |-> "GET", named |-> hdr, acceptOk |-> acceptsSse(accept),
                   status |-> status, afterDelete |-> hdr.present /\ hdr.value \in deleted]
        outboundSub == NewSubscription(BackgroundOutbound([sessionId |-> sr.sessionId]),
                                       lastEventId, TRUE, sequence, history)
        inboundSub  == NewSubscription(BackgroundInbound([sessionId |-> sr.sessionId]),
                                       lastEventId, TRUE, sequence, history)
        opened == [pc |-> "open", sessionId |-> sr.sessionId, lastEventId |-> lastEventId,
                   outboundSub |-> Len(subs) + 1, inboundSub |-> Len(subs) + 2,
                   events |-> << >>]
        streamed == StreamRun(opened, subs \o <<outboundSub, inboundSub>>)
    IN
    /\ Accepting
    /\ reply' = answer
    /\ IF status = 200
       THEN /\ bg.pc = "idle"
            /\ bg' = streamed[1]
            /\ subs' = streamed[2]
            /\ activeSubs' = activeSubs \cup {Len(subs) + 1, Len(subs) + 2}
       ELSE UNCHANGED <<bg, subs, activeSubs>>
    /\ UNCHANGED <<topicVars, facade, progressed, chained, mapped, rrIndex, server, hooks, handlers, registered, routed, received, sessionVars, sequence, history, http, engineInVars,
                   engineOutVars, deleted>>

\* The client of the background stream goes away: the close listener
\* unsubscribes both subscriptions and the loops end.
BgDisconnect ==
    /\ bg.pc = "open"
    /\ bg' = [bg EXCEPT !.pc = "closed"]
    /\ subs' = UnsubscribeAll(subs, {bg.outboundSub, bg.inboundSub})
    /\ activeSubs' = activeSubs \ {bg.outboundSub, bg.inboundSub}
    /\ UNCHANGED <<topicVars, facade, progressed, chained, mapped, rrIndex, server, hooks, handlers, registered, routed, received, sessionVars, sequence, history, http, engineInVars,
                   engineOutVars, reply, deleted>>

\* handleDelete: 405 / 400, or the session is deleted from the store (when
\* there is one) and the answer is 204.
DeleteArrive(hdr) ==
    LET status == IF ~DEFAULT_ENABLE_SESSION_TERMINATION THEN 405
                  ELSE IF ~hdr.present \/ hdr.value = << >> THEN 400
                  ELSE 204
        answer == [verb |-> "DELETE", named |-> hdr, acceptOk |-> TRUE,
                   status |-> status, afterDelete |-> hdr.present /\ hdr.value \in deleted]
    IN
    /\ Accepting
    /\ reply' = answer
    /\ sessions' = IF status = 204 /\ storeConfigured
                   THEN SessionDelete(sessions, hdr.value) ELSE sessions
    /\ deleted' = IF status = 204 THEN deleted \cup ({hdr.value} \cap Minted) ELSE deleted
    /\ UNCHANGED <<topicVars, facade, progressed, chained, mapped, rrIndex, server, hooks, handlers, registered, routed, received, storeConfigured, uuidCount, brokerVars, postVars,
                   engineInVars, engineOutVars, bg>>

-----------------------------------------------------------------------------
(* SpecHttp: POST, GET and DELETE exchanges of sessions, with and without  *)
(* a session store, and requests the server sends to the client.           *)

HttpInit ==
    /\ topicA = NoTopic
    /\ topicB = NoTopic
    /\ \E store \in BOOLEAN : SessionInit(store)
    /\ BrokerInit
    /\ PostInit
    /\ EngineInInit
    /\ EngineOutInit
    /\ GetInit

HttpBodies == { Single(RequestMsg(NumId(1), "ping")) }

HttpNext ==
    \/ \E p \in Slots, accept \in AcceptHeaders, hdr \in SessionHeaders, body \in HttpBodies :
          PostArrive(p, accept, hdr, body, "memory")
    \/ \E p \in Slots : EngineReceive(p)
    \/ \E p \in Slots, outcome \in {"result", "throw"} : HandlerSettle(p, outcome)
    \/ \E accept \in AcceptHeaders, hdr \in SessionHeaders : GetArrive(accept, hdr, Undefined)
    \/ BgDisconnect
    \/ \E hdr \in SessionHeaders : DeleteArrive(hdr)

SpecHttp == HttpInit /\ [][HttpNext]_vars

-----------------------------------------------------------------------------
(* SpecBg: the background stream of a session: notifications the client    *)
(* posts, requests the server sends, and a GET that resumes the stream.    *)

BgBodies == { Single(NotificationMsg("notifications/initialized", NoId)) }

BgNext ==
    \/ \E p \in Slots, hdr \in SessionHeaders, body \in BgBodies :
          PostArrive(p, {"application/json"}, hdr, body, "memory")
    \/ \E p \in Slots : EngineReceive(p)
    \/ \E id \in RequestIds : EngineSend(Defined(Uuid(1)), id, PlainOptions)
    \/ \E hdr \in SessionHeaders, lastEventId \in LastEventIds :
          GetArrive({"text/event-stream"}, hdr, lastEventId)
    \/ BgDisconnect

SpecBg == Init /\ [][BgNext]_vars

-----------------------------------------------------------------------------
(* Properties of session deletion (SpecHttp) and of replay (SpecBg)         *)

\* The POST exchanges that named a session id a DELETE had been answered
\* 204 for.
PostsAfterDelete == { p \in Slots : http[p].verb = "POST" /\ http[p].afterDelete }

\* A DELETE naming a session id is answered 204, however often it is sent.
DeleteAnswers204 ==
    (reply.verb = "DELETE" /\ reply.named.present) => reply.status = 204

\* C9 as stated: a DELETE naming a session id is answered 204 every time,
\* and with a session store every later GET or POST naming that id is
\* answered 404.
C9_DeletedSessionIs404 ==
    /\ DeleteAnswers204
    /\ storeConfigured =>
          /\ (reply.verb = "GET" /\ reply.afterDelete) => reply.status = 404
          /\ \A p \in PostsAfterDelete : http[p].pc = "done" /\ http[p].status = 404

\* C9, amended: a DELETE naming a session id is answered 204 every time, and
\* with a session store every later GET or POST naming that id is refused:
\* with 406 when its Accept header is not acceptable to the handler, with
\* 404 otherwise.
C9_DeletedSessionIsRefused ==
    /\ DeleteAnswers204
    /\ storeConfigured =>
          /\ (reply.verb = "GET" /\ reply.afterDelete) =>
                reply.status = IF reply.acceptOk THEN 404 ELSE 406
          /\ \A p \in PostsAfterDelete :
                /\ http[p].pc = "done"
                /\ http[p].status = IF http[p].acceptOk THEN 404 ELSE 406

\* With a store: a session was created by a POST and deleted, a later POST
\* naming it was answered 404, and a second DELETE naming it was answered 204.
C9_Witness ==
    /\ storeConfigured
    /\ reply.verb = "DELETE" /\ reply.afterDelete /\ reply.status = 204
    /\ \E p \in PostsAfterDelete : http[p].status = 404
    /\ \E q \in Slots : /\ http[q].verb = "POST" /\ http[q].isNewSession
                        /\ http[q].sessionId = reply.named.value

\* The stored events of the stream's two subjects that a replay from the
\* stream's Last-Event-ID covers: all of them when the header is absent,
\* those with a greater id when it is a number.
Replayable ==
    { m \in UNION { SeqToSet(history[e].messages) :
                      e \in { x \in DOMAIN history :
                                history[x].subject \in
                                  { BackgroundOutbound([sessionId |-> bg.sessionId]),
                                    BackgroundInbound([sessionId |-> bg.sessionId]) } } } :
        \/ ~bg.lastEventId.present
        \/ /\ NumberOf(bg.lastEventId.value).finite
           /\ NumberOf(m.id).value > NumberOf(bg.lastEventId.value).value }

-----------------------------------------------------------------------------
(* SpecBroker: the in-memory broker used directly, with queue groups and   *)
(* replay (examples/server InMemoryEventBroker).                           *)

MaxPublish == 3       \* messages published in one behaviour
MaxSubs    == 2       \* subscriptions opened in one behaviour

BrokerSubjects == { <<"a">>, <<"b">> }
BrokerPatterns == { <<"a">>, Str_star }
QueueGroups    == { NoGroup, <<"g">> }
FromEventIds   == { Undefined, Defined(<<"0">>), Defined(<<"1">>), Defined(<<"x">>) }

\* `${sub.pattern}::${sub.queueGroup}`
GroupKey(sub) == sub.pattern \o Str_colon \o Str_colon \o sub.queueGroup

\* The subscribers of one group key that publish() found matching, in the
\* order of broker.subscribers (creation order).
GroupMembers(ss, subject, key) ==
    SelectSeq(Array([i \in 1..Len(ss) |-> i]),
              LAMBDA i : /\ Delivers(ss[i], subject)
                         /\ ss[i].queueGroup # NoGroup
                         /\ GroupKey(ss[i]) = key)

RECURSIVE PublishGroups(_, _, _, _)
\* publish()'s loop over `grouped`: per key, the member at
\* (rrIndex.get(key) ?? 0) % subs.length is pushed the message and
\* rrIndex.set(key, idx + 1).  Gives <<subs, rrIndex>>.
PublishGroups(ss, rr, stored, keys) ==
    IF keys = {} THEN <<ss, rr>>
    ELSE LET key == CHOOSE k \in keys : TRUE
             members == GroupMembers(ss, stored.subject, key)
             idx == (IF MapHas(rr, key) THEN MapGet(rr, key) ELSE 0) % Len(members)
         IN PublishGroups([ss EXCEPT ![members[idx + 1]] = QueuePush(@, stored)],
                          MapSet(rr, key, idx + 1), stored, keys \ {key})

\* The keys of `grouped` for a subject.
GroupKeys(ss, subject) ==
    { GroupKey(ss[i]) : i \in { j \in DOMAIN ss : /\ Delivers(ss[j], subject)
                                                  /\ ss[j].queueGroup # NoGroup } }

BrokerData == NotificationMsg("notifications/message", NoId)

\* broker.publish(topic, params, data)
BrokerPublish(subject) ==
    LET stored == Stored(sequence + 1, subject, BrokerData)
        fanned == Publish(<<sequence, history, subs>>, subject, BrokerData)
        grouped == PublishGroups(fanned[3], rrIndex, stored, GroupKeys(subs, subject))
    IN
    /\ sequence < MaxPublish
    /\ sequence' = fanned[1]
    /\ history' = fanned[2]
    /\ subs' = grouped[1]
    /\ rrIndex' = grouped[2]
    /\ UNCHANGED <<topicVars, facade, progressed, chained, mapped, sessionVars, postVars, engineInVars, engineOutVars, getVars,
                   server, hooks, handlers, registered, routed, received>>

\* broker.subscribe(topic, params, { fromEventId, queueGroup }): the
\* subscriber is registered and the replay is pushed to it, whatever its
\* queue group.
BrokerSubscribe(pattern, fromEventId, queueGroup) ==
    /\ Len(subs) < MaxSubs
    /\ subs' = Append(subs,
                      [NewSubscription(pattern, fromEventId, TRUE, sequence, history)
                          EXCEPT !.queueGroup = queueGroup])
    /\ UNCHANGED <<topicVars, facade, progressed, chained, mapped, sessionVars, sequence, history, rrIndex, postVars,
                   engineInVars, engineOutVars, getVars, server, hooks, handlers, registered, routed, received>>

\* subscription.unsubscribe()
BrokerUnsubscribe(i) ==
    /\ ~subs[i].unsubscribed
    /\ subs' = [subs EXCEPT ![i] = Unsubscribe(@)]
    /\ UNCHANGED <<topicVars, facade, progressed, chained, mapped, sessionVars, sequence, history, rrIndex, postVars,
                   engineInVars, engineOutVars, getVars, server, hooks, handlers, registered, routed, received>>

BrokerNext ==
    \/ \E subject \in BrokerSubjects : BrokerPublish(subject)
    \/ \E pattern \in BrokerPatterns, fromEventId \in FromEventIds, queueGroup \in QueueGroups :
          BrokerSubscribe(pattern, fromEventId, queueGroup)
    \/ \E i \in DOMAIN subs : BrokerUnsubscribe(i)

SpecBroker == Init /\ [][BrokerNext]_vars

-----------------------------------------------------------------------------
(* SpecDisconnect: transport.disconnect() in its steps, while HTTP         *)
(* exchanges arrive and run.                                                *)

RECURSIVE Reap(_, _, _, _)
\* The loops of the exchanges parked on their subscriptions run again (from
\* slot p on) after subscriptions were closed: <<http, subs, activeSubs>>.
Reap(hs, ss, act, p) ==
    IF p > MaxHttp THEN <<hs, ss, act>>
    ELSE LET r == IF hs[p].pc = "wait" THEN JsonWait(hs[p], ss, act)
                  ELSE IF hs[p].pc = "stream" THEN SseStream(hs[p], ss, act)
                  ELSE <<hs[p], ss, act>>
         IN Reap([hs EXCEPT ![p] = r[1]], r[2], r[3], p + 1)

\* disconnect() up to `await Promise.all(closePromises)`: unsubscribe() is
\* called on every subscription in activeSubs now (each handler's own
\* cleanup takes the closed ones out of the set); the open GET stream and
\* the parked POST loops find their queues closed and end.
DisconnectBegin ==
    LET closed == UnsubscribeAll(subs, activeSubs)
        bgSubs == IF bg.pc = "open" THEN {bg.outboundSub, bg.inboundSub} ELSE {}
        reaped == Reap(http, closed, activeSubs \ bgSubs, 1)
    IN
    /\ server.pc = "listening"
    /\ server' = [server EXCEPT !.pc = "unsubscribing"]
    /\ bg' = IF bg.pc = "open" THEN [bg EXCEPT !.pc = "closed"] ELSE bg
    /\ http' = reaped[1]
    /\ subs' = reaped[2]
    /\ activeSubs' = reaped[3]
    /\ UNCHANGED <<topicVars, facade, progressed, chained, mapped, rrIndex, hooks, handlers, registered, routed, received, sessionVars, sequence, history, engineInVars,
                   engineOutVars, reply, deleted>>

\* The unsubscribe promises have settled: this.activeSubs.clear(), then
\* server.close(callback), after which no new request is taken.
DisconnectClear ==
    /\ server.pc = "unsubscribing"
    /\ server' = [server EXCEPT !.pc = "closing", !.cleared = Len(subs)]
    /\ activeSubs' = {}
    /\ UNCHANGED <<topicVars, facade, progressed, chained, mapped, rrIndex, hooks, handlers, registered, routed, received, sessionVars, brokerVars, http, engineInVars,
                   engineOutVars, getVars>>

\* server.close's callback runs once every exchange has ended: onClose is
\* called and disconnect() resolves.
ServerClosed ==
    /\ server.pc = "closing"
    /\ \A p \in Slots : http[p].pc \in {"idle", "done"}
    /\ bg.pc # "open"
    /\ server' = [server EXCEPT !.pc = "closed", !.onClose = @ + 1]
    /\ UNCHANGED <<topicVars, facade, progressed, chained, mapped, rrIndex, hooks, handlers, registered, routed, received, sessionVars, brokerVars, postVars, engineInVars,
                   engineOutVars, getVars>>

DisconnectNext ==
    \/ \E p \in Slots, hdr \in SessionHeaders, body \in HttpBodies, backend \in {"memory", "remote"} :
          PostArrive(p, {"application/json"}, hdr, body, backend)
    \/ \E p \in Slots : PostReady(p)
    \/ \E p \in Slots : EngineReceive(p)
    \/ \E p \in Slots : HandlerSettle(p, "result")
    \/ \E hdr \in SessionHeaders : GetArrive({"text/event-stream"}, hdr, Undefined)
    \/ BgDisconnect
    \/ DisconnectBegin
    \/ DisconnectClear
    \/ ServerClosed

SpecDisconnect == Init /\ [][DisconnectNext]_vars

-----------------------------------------------------------------------------
(* SpecSend: transport.send called with every kind of message and options  *)

\* DistributedSendOptions: sessionId and requestId, each possibly undefined;
\* a request id may be the empty string (the JSON-RPC id "").
SendOptions ==
    { [sessionId |-> s, requestId |-> r] :
        s \in { Undefined, Defined(Uuid(1)), Defined(Uuid(2)) },
        r \in { Undefined, Defined(<<"1">>), Defined(<< >>) } }

SendMessages ==
    { RequestMsg(NumId(1), "ping"), NotificationMsg("notifications/message", NoId),
      ResultMsg(NumId(1), <<0, 0>>), ErrorMsg(NumId(1), "INTERNAL_ERROR", "handler threw") }

\* `options?.requestId ? String(options.requestId) : undefined`, as the
\* string SendSubject tests (empty when undefined or "").
OptionsRequestId(o) == IF o.requestId.present THEN o.requestId.value ELSE << >>

\* transport.send(message, options): throws without a session id, otherwise
\* publishes the message on the subject its routing gives.  The call is
\* recorded in sent with the event id publish returned (empty when it threw).
TransportSend(message, o) ==
    LET accepted == TransportAccepts(o)
        published == Publish(<<sequence, history, subs>>,
                             SendSubject(message, OptionsSessionId(o).value,
                                         OptionsRequestId(o)), message)
    IN
    /\ Len(sent) < MaxOutgoing
    /\ sent' = Append(sent, SentEntry(IF accepted THEN DecimalString(published[1]) ELSE << >>,
                                      message, o.sessionId, o.requestId))
    /\ IF accepted
       THEN /\ sequence' = published[1]
            /\ history' = published[2]
            /\ subs' = published[3]
       ELSE UNCHANGED <<sequence, history, subs>>
    /\ UNCHANGED <<topicVars, facade, progressed, chained, mapped, rrIndex, server, hooks, handlers, registered, routed, received, sessionVars, postVars, incomingRequests, abortedCtl,
                   cancels, engineOutVars, getVars>>

SendNext == \E message \in SendMessages, o \in SendOptions : TransportSend(message, o)

SpecSend == Init /\ [][SendNext]_vars

-----------------------------------------------------------------------------
(* SpecRegister: handlers registered on a constructed engine, one at a     *)
(* time (registerHandler) or by a feature (addFeature).                    *)

MaxRegister == 3
RegisterMethods == { "ping", "tools/list", "notifications/initialized" }
HandlerNames == { "first", "second" }
\* A feature registers its handlers one after the other in initialize().
Features == { <<"ping">>, <<"tools/list", "ping">>, <<"tools/list", "tools/list">> }

\* One call of registerHandler as it is recorded: had says whether the
\* method had a handler when the call was made, threw whether the call
\* ended with an error.
Registration(hs, method, handler) ==
    [method |-> method, handler |-> handler, had |-> MapHas(hs, method), threw |-> FALSE]

\* registerHandler(method, handler): `this.handlers.set(method, handler)`.
RegisterHandler(method, handler) ==
    /\ Len(registered) < MaxRegister
    /\ handlers' = MapSet(handlers, method, handler)
    /\ registered' = Append(registered, Registration(handlers, method, handler))
    /\ UNCHANGED <<topicVars, facade, progressed, chained, mapped, rrIndex, server, hooks, routed, received, sessionVars, brokerVars, postVars,
                   engineInVars, engineOutVars, getVars>>

RECURSIVE Initialize(_, _, _, _)
\* feature.initialize(protocol): registerHandler for each method of the
\* feature from the i-th on; gives the table and the calls made.
Initialize(hs, calls, feature, i) ==
    IF i > Len(feature) THEN <<hs, calls>>
    ELSE Initialize(MapSet(hs, feature[i], "feature"),
                    Append(calls, Registration(hs, feature[i], "feature")), feature, i + 1)

\* addFeature(feature): `feature.initialize(this)`.
AddFeature(feature) ==
    LET done == Initialize(handlers, registered, feature, 1) IN
    /\ Len(registered) + Len(feature) <= MaxRegister
    /\ handlers' = done[1]
    /\ registered' = done[2]
    /\ UNCHANGED <<topicVars, facade, progressed, chained, mapped, rrIndex, server, hooks, routed, received, sessionVars, brokerVars, postVars,
                   engineInVars, engineOutVars, getVars>>

RegisterNext ==
    \/ \E method \in RegisterMethods, handler \in HandlerNames : RegisterHandler(method, handler)
    \/ \E feature \in Features : AddFeature(feature)

SpecRegister == Init /\ [][RegisterNext]_vars

-----------------------------------------------------------------------------
(* SpecRoute: the HTTP request router of a transport constructed with or   *)
(* without an endpoint option.                                             *)

MaxRouted == 2
\* Paths are strings: "/" followed by a name.
Path(name) == <<"/">> \o name
Str_api       == <<"a", "p", "i">>
Str_health    == <<"h", "e", "a", "l", "t", "h">>
Str_readiness == <<"r", "e", "a", "d", "i", "n", "e", "s", "s">>
Str_other     == <<"o", "t", "h", "e", "r">>
DEFAULT_ENDPOINT == Path(<< >>)
EndpointOptions == { Undefined, Defined(Path(Str_mcp)), Defined(Path(Str_api)) }
Pathnames == { Path(<< >>), Path(Str_mcp), Path(Str_api), Path(Str_health),
               Path(Str_readiness), Path(Str_other) }
HttpMethods == { "POST", "GET", "DELETE", "OPTIONS", "PUT" }

\* `options.httpServer.endpoint ?? DEFAULT_ENDPOINT`
Endpoint(option) == IF option.present THEN option.value ELSE DEFAULT_ENDPOINT

\* handleRequest without middleware: the status it sets itself (0 when it
\* hands the request to a handler) and the handler it calls.
Route(endpoint, pathname, method, listening) ==
    IF pathname = Path(Str_health) THEN [status |-> 200, handler |-> "health"]
    ELSE IF pathname = Path(Str_readiness)
    THEN [status |-> IF listening THEN 200 ELSE 503, handler |-> "readiness"]
    ELSE IF pathname # endpoint THEN [status |-> 404, handler |-> "none"]
    ELSE IF method = "POST" THEN [status |-> 0, handler |-> "handlePost"]
    ELSE IF method = "GET" THEN [status |-> 0, handler |-> "handleGet"]
    ELSE IF method = "DELETE" THEN [status |-> 0, handler |-> "handleDelete"]
    ELSE IF method = "OPTIONS" THEN [status |-> 204, handler |-> "none"]
    ELSE [status |-> 405, handler |-> "none"]

\* A request arrives at a transport constructed with the endpoint option.
HandleRequest(option, pathname, method) ==
    /\ Len(routed) < MaxRouted
    /\ routed' = Append(routed, [option |-> option, pathname |-> pathname, method |-> method,
                                 to |-> Route(Endpoint(option), pathname, method,
                                              server.pc # "closed")])
    /\ UNCHANGED <<topicVars, facade, progressed, chained, mapped, rrIndex, server, hooks, handlers, registered, received, sessionVars,
                   brokerVars, postVars, engineInVars, engineOutVars, getVars>>

RouteNext ==
    \E option \in EndpointOptions, pathname \in Pathnames, method \in HttpMethods :
        HandleRequest(option, pathname, method)

SpecRoute == Init /\ [][RouteNext]_vars

-----------------------------------------------------------------------------
(* SpecMiddleware: HTTP requests for the endpoint arrive at a transport    *)
(* constructed with any chain of middlewares.                              *)

MaxChain == 2

\* What a middleware does when it is called: it awaits next(), calls next()
\* without awaiting the promise, ends the response, throws, or returns
\* without doing either.  length is the arity runMiddlewares tests.
MiddlewareDoes == { "await next", "next", "end", "throw", "return" }
Middlewares == [length : {3, 4}, does : MiddlewareDoes]
Chains == UNION { [1..n -> Middlewares] : n \in 0..MaxChain }

ExecuteResult(idx, ended, threw, lost) ==
    [idx |-> idx, ended |-> ended, threw |-> threw, lost |-> lost]

\* `execute(err)` of runMiddlewares with idx middlewares consumed and
\* res.writableEnded = ended: the idx and writableEnded it leaves, whether
\* its promise rejects (threw), and whether a promise it started rejected
\* with nobody awaiting it (lost).
RECURSIVE Execute(_, _, _, _)
Execute(mws, idx, err, ended) ==
    IF ended THEN ExecuteResult(idx, ended, FALSE, FALSE)
    ELSE IF idx >= Len(mws) THEN ExecuteResult(idx, ended, err, FALSE)
    ELSE
        LET mw == mws[idx + 1]
            called == (err <=> mw.length = 4)
            body ==
                IF ~called THEN Execute(mws, idx + 1, err, ended)
                ELSE CASE mw.does = "end" -> ExecuteResult(idx + 1, TRUE, FALSE, FALSE)
                       [] mw.does = "throw" -> ExecuteResult(idx + 1, ended, TRUE, FALSE)
                       [] mw.does = "return" -> ExecuteResult(idx + 1, ended, FALSE, FALSE)
                       [] mw.does = "await next" -> Execute(mws, idx + 1, FALSE, ended)
                       [] mw.does = "next" ->
                            LET r == Execute(mws, idx + 1, FALSE, ended)
                            IN  ExecuteResult(r.idx, r.ended, FALSE, r.lost \/ r.threw)
            caught == Execute(mws, body.idx, TRUE, body.ended)
        IN  IF body.threw THEN [caught EXCEPT !.lost = caught.lost \/ body.lost] ELSE body

\* handleRequest for a request to the endpoint of a transport constructed
\* with the middlewares mws: runMiddlewares, then the routing by method when
\* it returned true; a rejection is caught by the server's request listener,
\* which calls handleError.
HandleRequestThrough(mws, method) ==
    LET r == Execute(mws, 0, FALSE, FALSE)
        proceed == ~r.threw /\ ~r.ended
    IN
    /\ chained' = [chain |-> mws, idx |-> r.idx, ended |-> r.ended,
                   unhandled |-> r.threw \/ r.lost,
                   status |-> IF r.threw /\ ~r.ended THEN 500 ELSE 0,
                   handler |-> IF proceed
                               THEN Route(DEFAULT_ENDPOINT, DEFAULT_ENDPOINT, method, TRUE).handler
                               ELSE "none"]
    /\ UNCHANGED <<topicVars, mapped, facade, progressed, rrIndex, server, hooks, handlers, registered, routed,
                   received, sessionVars, brokerVars, postVars, engineInVars, engineOutVars, getVars>>

MiddlewareNext ==
    \E mws \in Chains, method \in {"POST", "GET", "DELETE"} :
        HandleRequestThrough(Array(mws), method)

SpecMiddleware == Init /\ [][MiddlewareNext]_vars

-----------------------------------------------------------------------------
(* SpecKeys: mapRequestKey applied to the triples of two requests.         *)

KeyConnections == { ConnId, <<"c", "2">> }
KeySessions == { Undefined, Defined(Str_undefined), Defined(Uuid(1)) }
KeyRequestIds == { NumId(1), StrId(<<"1">>), NumId(2) }
Triples == { <<c, s, id>> : c \in KeyConnections, s \in KeySessions, id \in KeyRequestIds }

\* The key under which send and processRequest file the request of a triple.
KeyOf(triple) == mapRequestKey(triple[1], SessionString(triple[2]), triple[3])

MapKeys(a, b) ==
    /\ mapped' = [a |-> a, b |-> b, keyA |-> KeyOf(a), keyB |-> KeyOf(b)]
    /\ UNCHANGED <<topicVars, facade, progressed, chained, rrIndex, server, hooks, handlers,
                   registered, routed, received, sessionVars, brokerVars, postVars,
                   engineInVars, engineOutVars, getVars>>

KeysNext == \E a \in Triples, b \in Triples : MapKeys(a, b)

SpecKeys == Init /\ [][KeysNext]_vars

-----------------------------------------------------------------------------
(* SpecResponse: requests are sent with any id a caller may choose and the *)
(* client's responses and error envelopes arrive, for any id.              *)

SendIds == { NumId(0), NumId(1), StrId(<< >>), StrId(<<"1">>) }
EnvelopeIds == SendIds \cup { NullId }

ResponseNext ==
    \/ \E id \in SendIds : EngineSend(Defined(Uuid(1)), id, PlainOptions)
    \/ \E id \in EnvelopeIds, isError \in BOOLEAN :
          /\ id = NullId => isError
          /\ EngineResponse(Defined(Uuid(1)), id, isError)

SpecResponse == Init /\ [][ResponseNext]_vars

-----------------------------------------------------------------------------
(* SpecIsolation: exchanges of several sessions, with and without a        *)
(* session store, whose clients choose their Mcp-Session-Id header, while  *)
(* the server answers requests and sends notifications to the sessions.    *)

\* The headers a client may send: none, a session id the server made, "*".
IsolationHeaders == SessionHeaders \cup { Defined(Str_star) }
IsolationBodies ==
    { Single(RequestMsg(NumId(1), "ping")), Single(RequestMsg(NumId(1), "tools/call")),
      Single(NotificationMsg("notifications/initialized", NoId)) }

IsolationNext ==
    \/ \E p \in Slots, hdr \in IsolationHeaders, body \in IsolationBodies :
          PostArrive(p, {"application/json", "text/event-stream"}, hdr, body, "memory")
    \/ \E p \in Slots : EngineReceive(p)
    \/ \E p \in Slots : HandlerSettle(p, "result")
    \/ \E k \in 1..MaxSessions : EngineNotify(Defined(Uuid(k)), "notifications/message")
    \/ \E hdr \in IsolationHeaders : GetArrive({"text/event-stream"}, hdr, Undefined)
    \/ BgDisconnect

SpecIsolation == HttpInit /\ [][IsolationNext]_vars

-----------------------------------------------------------------------------
(* SpecAnswer: the server sends requests to a session's client, which      *)
(* reads them from its GET stream and posts its responses.                 *)

ClientResult(id) == ResultMsg(id, <<0, 0>>)
AnswerBodies ==
    { Single(NotificationMsg("notifications/initialized", NoId)) }
    \cup { Single(ClientResult(id)) : id \in RequestIds }

AnswerNext ==
    \/ \E p \in Slots, hdr \in SessionHeaders, body \in AnswerBodies :
          PostArrive(p, {"application/json"}, hdr, body, "memory")
    \/ \E p \in Slots : EngineReceive(p)
    \/ \E id \in RequestIds : EngineSend(Defined(Uuid(1)), id, PlainOptions)
    \/ \E hdr \in SessionHeaders : GetArrive({"text/event-stream"}, hdr, Undefined)
    \/ BgDisconnect

SpecAnswer == Init /\ [][AnswerNext]_vars

-----------------------------------------------------------------------------
(* SpecConnection: requests are sent on a connection and answered or timed *)
(* out, and single connections are closed (connection.close()).            *)

\* connection.close(): `await transport.disconnect()`, then the connection
\* leaves Protocol.connections.  The HTTP transport of ConnId unsubscribes
\* its subscriptions and closes its server.
ConnectionClose(c) ==
    /\ c \in connections
    /\ disconnectedTransports' = disconnectedTransports \cup {c}
    /\ connections' = connections \ {c}
    /\ IF c = ConnId
       THEN /\ subs' = UnsubscribeAll(subs, activeSubs)
            /\ activeSubs' = {}
            /\ bg' = IF bg.pc = "open" THEN [bg EXCEPT !.pc = "closed"] ELSE bg
            /\ server' = [pc |-> "closed", onClose |-> server.onClose + 1,
                          cleared |-> Len(subs)]
       ELSE UNCHANGED <<subs, activeSubs, bg, server>>
    /\ UNCHANGED <<topicVars, facade, progressed, chained, mapped, rrIndex, hooks, handlers, registered, routed, received,
                   sessionVars, sequence, history, http, engineInVars, pendingRequests,
                   outgoing, engineClosed, progressTokenIndex, notified, reply, deleted>>

\* Requests are sent on a connection that has not been closed.
ConnectionNext ==
    \/ \E id \in RequestIds :
          ConnId \in connections /\ EngineSend(Defined(Uuid(1)), id, PlainOptions)
    \/ \E id \in RequestIds, isError \in BOOLEAN :
          EngineResponse(Defined(Uuid(1)), id, isError)
    \/ \E n \in DOMAIN outgoing : TimerFires(n)
    \/ \E c \in {ConnId, OtherConnId} : ConnectionClose(c)

SpecConnection == Init /\ [][ConnectionNext]_vars

-----------------------------------------------------------------------------
(* SpecFacade: handlers that use the protocol facade they are given.       *)

MaxFacade == 2
FacadeOperations == { "send", "ping", "log" }

\* The facade handle() builds for every handler call: send and log throw
\* "Method not implemented.", ping returns a resolved promise; none of them
\* reaches the connection's transport (emitted is the event id published).
FacadeCall(ctl, operation) ==
    [ctl |-> ctl, operation |-> operation, threw |-> operation \in {"send", "log"},
     emitted |-> << >>]

\* The running handler of exchange p calls an operation of its facade.
HandlerUsesFacade(p, operation) ==
    /\ http[p].pc = "handler"
    /\ Len(facade) < MaxFacade
    /\ facade' = Append(facade, FacadeCall(<<p, http[p].cur>>, operation))
    /\ UNCHANGED <<topicVars, progressed, chained, mapped, rrIndex, server, hooks, handlers, registered, routed, received,
                   sessionVars, brokerVars, postVars, engineInVars, engineOutVars, getVars>>

FacadeNext ==
    \/ \E p \in Slots, hdr \in SessionHeaders :
          PostArrive(p, {"application/json"}, hdr, Single(RequestMsg(NumId(1), "ping")), "memory")
    \/ \E p \in Slots : EngineReceive(p)
    \/ \E p \in Slots, operation \in FacadeOperations : HandlerUsesFacade(p, operation)
    \/ \E p \in Slots, outcome \in {"result", "throw"} : HandlerSettle(p, outcome)

SpecFacade == Init /\ [][FacadeNext]_vars

-----------------------------------------------------------------------------
(* SpecProgress: requests sent with a progress callback and any progress   *)
(* token, and the progress notifications and responses of the client.      *)

ProgressTokens == { NumId(0), NumId(1), StrId(<<"1">>) }
ProgressOptions ==
    { [PlainOptions EXCEPT !.onProgress = TRUE, !.progressToken = token] :
        token \in ProgressTokens } \cup { PlainOptions }

ProgressNext ==
    \/ \E id \in RequestIds, options \in ProgressOptions :
          EngineSend(Defined(Uuid(1)), id, options)
    \/ \E token \in ProgressTokens : EngineProgress(Defined(Uuid(1)), token)
    \/ \E id \in RequestIds : EngineResponse(Defined(Uuid(1)), id, FALSE)

SpecProgress == Init /\ [][ProgressNext]_vars

-----------------------------------------------------------------------------
(* SpecNotify: a session's background stream and the notifications the     *)
(* server sends to the session through the engine.                         *)

NotifyNext ==
    \/ \E p \in Slots, hdr \in SessionHeaders, body \in BgBodies :
          PostArrive(p, {"application/json"}, hdr, body, "memory")
    \/ \E p \in Slots : EngineReceive(p)
    \/ \E k \in 1..MaxSessions, method \in ServerNotificationMethods :
          EngineNotify(Defined(Uuid(k)), method)
    \/ \E hdr \in SessionHeaders : GetArrive({"text/event-stream"}, hdr, Undefined)
    \/ BgDisconnect

SpecNotify == Init /\ [][NotifyNext]_vars

\* The notifications passed to Protocol.send for the open stream's session
\* while the stream was open, in call order.
NotifiedOnStream ==
    LET during == SelectSeq(notified, LAMBDA r : r.stream = bg.outboundSub)
    IN Array([i \in DOMAIN during |-> during[i].message])

\* The server notifications the open stream has written, in writing order.
EmittedNotifications ==
    LET mine == SelectSeq(bg.events,
                          LAMBDA e : /\ isJSONRPCNotification(e.data)
                                     /\ e.data.method \in ServerNotificationMethods)
    IN Array([i \in DOMAIN mine |-> mine[i].data])

\* C11: the notifications sent through the engine with routing {sessionId}
\* while a GET stream of that session is open are written on that stream
\* verbatim, each exactly once, in the order in which they were sent.
C11_NotificationsEmittedInOrder ==
    bg.pc = "open" => EmittedNotifications = NotifiedOnStream

\* The message of event e was passed to transport.send by the engine: a
\* request of Protocol.send, or a notification transport.send accepted.
ServerInitiated(e) ==
    \/ /\ isJSONRPCRequest(e.data)
       /\ \E n \in DOMAIN outgoing : e.data = RequestMsg(outgoing[n].id, "ping")
    \/ /\ isJSONRPCNotification(e.data)
       /\ \E n \in DOMAIN notified : ~notified[n].threw /\ e.data = notified[n].message

\* C12: every event written on a GET background stream carries a message
\* the server side sent through the transport's send: never a response or
\* an error, and never a message that arrived from the client in a POST.
C12_OnlyServerInitiated ==
    \A i \in DOMAIN bg.events :
        /\ ~isTerminal(bg.events[i].data)
        /\ ServerInitiated(bg.events[i])

-----------------------------------------------------------------------------
(* SpecTerminate: sessions of a store that are created, streamed from and  *)
(* deleted.  The event loop runs every delivery that is ready (weak        *)
(* fairness of EngineReceive); what handlers and clients do, and when, is  *)
(* not constrained.                                                        *)

TerminateNext ==
    \/ \E p \in Slots, hdr \in SessionHeaders, body \in HttpBodies :
          PostArrive(p, {"application/json"}, hdr, body, "memory")
    \/ \E p \in Slots : EngineReceive(p)
    \/ \E p \in Slots : HandlerSettle(p, "result")
    \/ \E hdr \in SessionHeaders : GetArrive({"text/event-stream"}, hdr, Undefined)
    \/ BgDisconnect
    \/ \E hdr \in SessionHeaders : DeleteArrive(hdr)

SpecTerminate ==
    /\ Init
    /\ [][TerminateNext]_vars
    /\ \A p \in Slots : WF_vars(EngineReceive(p))

\* C13: once a DELETE has terminated the session of an open GET stream, the
\* stream is eventually closed.
C13_StreamClosedAfterDelete ==
    (bg.pc = "open" /\ bg.sessionId \in deleted) ~> (bg.pc # "open")

-----------------------------------------------------------------------------
(* Properties of the POST handler's content negotiation (Spec)              *)

\* The response mode is among the media types the Accept header names
\* (as handlePost reads the header).
ModeAccepted(mode, accept) ==
    IF mode = "sse" THEN acceptsSse(accept) ELSE acceptsJson(accept)

\* C14: a POST that contains a request (in a body that parses, for a session
\* that is found or created) and whose Accept header does not name the
\* response mode the policy chooses is answered 406.
C14_UnacceptableModeIs406 ==
    [][\A p \in Slots, accept \in AcceptHeaders, hdr \in SessionHeaders,
          body \in PostBodies, backend \in Backends :
            ( /\ PostArrive(p, accept, hdr, body, backend)
              /\ body.valid
              /\ RequestIndices(body.messages) # << >>
              /\ getOrCreateSession(hdr).success
              /\ ~ModeAccepted(defaultResponseModeStrategy(body.messages), accept) )
            => (http'[p].pc = "done" /\ http'[p].status = 406)]_vars

-----------------------------------------------------------------------------
(* Properties of the engine's close, abort and timers (SpecEngine, SpecTimer) *)

\* C15: after Protocol.close every request passed to send has been
\* completed (those still outstanding by the connection-closed rejection),
\* every incoming request's controller is aborted, every connection's
\* transport is disconnected, and the connections, pending-request,
\* incoming-request and progress-index tables are empty.
C15_CloseRejectsAndClears ==
    engineClosed =>
        /\ \A n \in DOMAIN outgoing : outgoing[n].completions >= 1
        /\ RunningCtls \subseteq abortedCtl
        /\ disconnectedTransports = {ConnId, OtherConnId}
        /\ connections = {} /\ pendingRequests = {}
        /\ incomingRequests = {} /\ progressTokenIndex = {}

\* C16: a request whose options.signal is aborted (already when send is
\* called, or at any moment after) has its future rejected as an external
\* cancel when it had not completed before, and has no entry left in the
\* pending-request table.
C16_AbortedSignalRejects ==
    \A n \in DOMAIN outgoing :
        outgoing[n].signal = "aborted" =>
            /\ outgoing[n].completions >= 1
            /\ outgoing[n].kind \in {"external cancel", "success response",
                                     "error response", "timeout", "send failure",
                                     "connection closed"}
            /\ \A e \in pendingRequests : e.val # n

\* C18: a request sent with resetTimeoutOnProgress and maxTotalTimeout is
\* no longer pending once maxTotalTimeout has passed since it was sent,
\* however many progress notifications restarted its timer.
C18_TotalTimeoutCaps ==
    \A n \in DOMAIN outgoing :
        ( /\ outgoing[n].options.resetTimeoutOnProgress
          /\ outgoing[n].options.maxTotalTimeout.present
          /\ outgoing[n].completions = 0 )
        => outgoing[n].age <= outgoing[n].options.maxTotalTimeout.value

-----------------------------------------------------------------------------
(* Properties of processRequest's failure paths (Spec)                     *)

\* In this step the engine passed to transport.send exactly one envelope,
\* an error with the given code that carries the id of the request slot p is
\* at, routed by the request's session and String(id), and processRequest
\* returned (the exchange went on past the request).
EmitsError(p, code) ==
    LET h == http[p]
        m == h.messages[h.cur]
    IN /\ Len(sent') = Len(sent) + 1
       /\ SubSeq(sent', 1, Len(sent)) = sent
       /\ sent'[Len(sent')].ctl = <<p, h.cur>>
       /\ sent'[Len(sent')].message = ErrorMsg(m.id, code, sent'[Len(sent')].message.error.message)
       /\ sent'[Len(sent')].sessionId = h.sessionId
       /\ sent'[Len(sent')].requestId = StringOf(m.id)
       /\ http'[p].cur = h.cur + 1
       /\ \A e \in incomingRequests' : e.val # <<p, h.cur>>

\* The request slot p is at has no registered handler.
NoHandler(p) ==
    /\ http[p].pc = "deliver"
    /\ isJSONRPCRequest(http[p].messages[http[p].cur])
    /\ http[p].messages[http[p].cur].method \notin RegisteredMethods

\* C17 (as stated): a request without a registered handler, or whose handler
\* throws, always makes the engine emit one error envelope with the
\* request's id and routing (method-not-found, internal-error), and the
\* engine goes on with the messages after it.
C17_ErrorEnvelopeAlways ==
    [][\A p \in Slots :
          /\ (EngineReceive(p) /\ NoHandler(p)) => EmitsError(p, "METHOD_NOT_FOUND")
          /\ HandlerSettle(p, "throw") => EmitsError(p, "INTERNAL_ERROR")]_vars

\* C17 (amended): the same, except that a handler that throws after the
\* request's abort handle was tripped makes the engine emit nothing; the
\* engine goes on all the same.
C17_ErrorEnvelopeUnlessAborted ==
    [][\A p \in Slots :
          /\ (EngineReceive(p) /\ NoHandler(p)) => EmitsError(p, "METHOD_NOT_FOUND")
          /\ HandlerSettle(p, "throw") =>
                IF <<p, http[p].cur>> \in abortedCtl
                THEN /\ sent' = sent
                     /\ http'[p].cur = http[p].cur + 1
                     /\ \A e \in incomingRequests' : e.val # <<p, http[p].cur>>
                ELSE EmitsError(p, "INTERNAL_ERROR")]_vars

\* The handler of one request threw and its internal-error envelope was
\* emitted with the request's id and routing, and the handler of another
\* request settled after its abort handle was tripped and nothing was
\* emitted for it; both requests have left the incoming-request table.
C17_Witness ==
    \E c \in Dispatched, d \in Dispatched :
        /\ Processed(c) /\ c \in abortedCtl /\ EnvelopesFor(c) = {}
        /\ Processed(d) /\ d \notin abortedCtl
        /\ \E n \in EnvelopesFor(d) :
              /\ sent[n].ctl = d
              /\ sent[n].message.error.code = "INTERNAL_ERROR"
              /\ sent[n].requestId = StringOf(http[d[1]].messages[d[2]].id)

-----------------------------------------------------------------------------
(* Properties of the broker's replay and queue groups (SpecBroker)         *)

RECURSIVE StoredFrom(_, _)
\* Every message the broker has stored (history.values(), flattened).
StoredFrom(h, k) ==
    IF k > Len(h) THEN {}
    ELSE { h[k].messages[i] : i \in DOMAIN h[k].messages } \cup StoredFrom(h, k + 1)

SeqOf(id) == NumberOf(id).value

\* What a subscription opened with a from-event-id must have received:
\* every matching message stored before it was opened with an id greater
\* than the from-event-id and none with an id up to it (ids compare as
\* numbers; a from-event-id that is not a number constrains neither), every
\* matching message published since while it is subscribed, nothing else,
\* nothing twice, and the replayed ones before the live ones.
ReplayThenLive(s) ==
    LET from == NumberOf(s.fromEventId.value)
        matching == { m \in StoredFrom(history, 1) : subjectMatches(s.pattern, m.subject) }
    IN /\ \A m \in matching :
             /\ (SeqOf(m.id) <= s.liveSeq /\ from.finite /\ SeqOf(m.id) > from.value)
                   => \E i \in DOMAIN s.got : s.got[i] = m.id
             /\ (SeqOf(m.id) <= s.liveSeq /\ from.finite /\ SeqOf(m.id) <= from.value)
                   => \A i \in DOMAIN s.got : s.got[i] # m.id
             /\ (SeqOf(m.id) > s.liveSeq /\ ~s.unsubscribed)
                   => \E i \in DOMAIN s.got : s.got[i] = m.id
       /\ \A i \in DOMAIN s.got : \E m \in matching : m.id = s.got[i]
       /\ \A i, j \in DOMAIN s.got :
             i < j => /\ s.got[i] # s.got[j]
                      /\ ~(SeqOf(s.got[i]) > s.liveSeq /\ SeqOf(s.got[j]) <= s.liveSeq)

GroupOf(n) ==
    { i \in DOMAIN subs : /\ subs[i].pattern = subs[n].pattern
                          /\ subs[i].queueGroup = subs[n].queueGroup }

\* C20: each stored message has been delivered to at most one member of a
\* queue group whose pattern matches it, and to one when the group had a
\* member (still subscribed) when it was published.
C20_OneMemberPerGroup ==
    \A n \in DOMAIN subs, m \in StoredFrom(history, 1) :
        (subs[n].queueGroup # NoGroup /\ subjectMatches(subs[n].pattern, m.subject)) =>
            LET receivers == { i \in GroupOf(n) :
                                 \E k \in DOMAIN subs[i].got : subs[i].got[k] = m.id }
            IN /\ Cardinality(receivers) <= 1
               /\ (\E i \in GroupOf(n) : subs[i].liveSeq < SeqOf(m.id) /\ ~subs[i].unsubscribed)
                     => receivers # {}

-----------------------------------------------------------------------------
(* Properties of transport.send's routing (SpecSend)                       *)

\* The subject the message with the event id was stored under (empty when
\* no such message is stored).
SubjectOf(id) ==
    IF \E m \in StoredFrom(history, 1) : m.id = id
    THEN (CHOOSE m \in StoredFrom(history, 1) : m.id = id).subject
    ELSE << >>

\* C21: every call of transport.send without a session id published
\* nothing; every call with one published its message on
\* request-outbound(session, requestId) when the options carry a request
\* id, and otherwise on background-inbound(session) for a request and on
\* background-outbound(session) for a notification or a response.
C21_SendRoutesByOptions ==
    /\ sequence = Cardinality({ n \in DOMAIN sent : sent[n].ctl # << >> })
    /\ \A n \in DOMAIN sent :
          LET e == sent[n]
          IN IF ~e.sessionId.present THEN e.ctl = << >>
             ELSE /\ e.ctl # << >>
                  /\ \E m \in StoredFrom(history, 1) : m.id = e.ctl /\ m.data = e.message
                  /\ SubjectOf(e.ctl) =
                        IF e.requestId.present
                        THEN RequestOutbound([sessionId |-> e.sessionId.value,
                                              requestId |-> e.requestId.value])
                        ELSE IF isJSONRPCRequest(e.message)
                        THEN BackgroundInbound([sessionId |-> e.sessionId.value])
                        ELSE BackgroundOutbound([sessionId |-> e.sessionId.value])

-----------------------------------------------------------------------------
(* Properties of transport.disconnect (SpecDisconnect)                     *)

\* C22: once disconnect() has unsubscribed and cleared, every subscription
\* the transport had opened by then (those of exchanges in flight included)
\* is unsubscribed; and when disconnect() has resolved, activeSubs is empty
\* and the on-close hook was called exactly once.
C22_DisconnectUnsubscribesAll ==
    /\ server.pc \in {"closing", "closed"} =>
          \A i \in 1..server.cleared : subs[i].unsubscribed
    /\ server.pc = "closed" => (activeSubs = {} /\ server.onClose = 1)
    /\ server.pc # "closed" => server.onClose = 0

-----------------------------------------------------------------------------
(* Properties of the lifecycle handlers (Spec)                             *)

\* C23: the on-ready hook has been called at most once for each session,
\* however many notifications/initialized the session's client has sent.
C23_ReadyOncePerSession ==
    \A i, j \in DOMAIN hooks :
        (hooks[i].hook = "onReady" /\ hooks[j].hook = "onReady"
           /\ hooks[i].sessionId = hooks[j].sessionId) => i = j

-----------------------------------------------------------------------------
(* Properties of the handler table (SpecRegister)                          *)

\* C24: every registerHandler call for a method that already had a handler
\* ended with an error, and left the method's handler as it was.
C24_DuplicateRegistrationRejected ==
    \A i \in DOMAIN registered : registered[i].had => registered[i].threw

-----------------------------------------------------------------------------
(* Properties of the request body (Spec)                                   *)

\* C25: a POST with an acceptable Accept header whose body parsed as the
\* empty array has been answered with status 400.
C25_EmptyBatchIs400 ==
    \A p \in Slots :
        (http[p].verb = "POST" /\ http[p].pc = "done" /\ http[p].acceptOk
           /\ http[p].isBatch /\ http[p].messages = << >>)
        => http[p].status = 400

-----------------------------------------------------------------------------
(* Properties of the request router (SpecRoute)                            *)

\* C26: on a transport constructed without an endpoint option, POST, GET
\* and DELETE to /mcp have reached the MCP handlers, and a request to any
\* path other than /mcp, /health and /readiness has been answered 404.
C26_DefaultEndpointIsMcp ==
    \A i \in DOMAIN routed :
        ~routed[i].option.present =>
            /\ (routed[i].pathname = Path(Str_mcp) /\ routed[i].method = "POST")
                  => routed[i].to.handler = "handlePost"
            /\ (routed[i].pathname = Path(Str_mcp) /\ routed[i].method = "GET")
                  => routed[i].to.handler = "handleGet"
            /\ (routed[i].pathname = Path(Str_mcp) /\ routed[i].method = "DELETE")
                  => routed[i].to.handler = "handleDelete"
            /\ routed[i].pathname \notin {Path(Str_mcp), Path(Str_health), Path(Str_readiness)}
                  => routed[i].to.status = 404

-----------------------------------------------------------------------------
(* Properties of the futures returned by send (SpecEngineLive)             *)

\* C27: every request passed to send has its future settled in the end.
C27_EveryFutureSettles ==
    \A n \in 1..MaxOutgoing :
        [](n \in DOMAIN outgoing
              => <>(n \in DOMAIN outgoing /\ outgoing[n].completions >= 1))

-----------------------------------------------------------------------------
(* Properties of the incoming responses (SpecResponse)                     *)

\* C28: the last response or error envelope received completed exactly the
\* request registered for its session and id, which is out of the pending
\* table since, and completed nothing when there was no such request.
C28_EnvelopeCompletesItsRequest ==
    received.count > 0 =>
        /\ received.completed = received.target
        /\ received.target # 0 =>
              /\ \A e \in pendingRequests : e.val # received.target
              /\ outgoing[received.target].completions = 1
              /\ outgoing[received.target].kind =
                    IF received.isError THEN "error response" ELSE "success response"

-----------------------------------------------------------------------------
(* Properties of the progress index (SpecEngine)                           *)

\* C29: every entry of the progress index gives the key of a request that
\* is in the pending table.
C29_ProgressIndexWithinPending ==
    \A e \in progressTokenIndex : MapHas(pendingRequests, e.val)

-----------------------------------------------------------------------------
(* Properties of session isolation (SpecIsolation)                         *)

\* The session a stored message was published for: the session segment of
\* its subject (the publishers' session ids have no dot).
PublishedFor(id) == tokenize(SubjectOf(id))[2]

\* The event ids exchange p has written to its response: the events of an
\* SSE response, the collected responses of a JSON one.
WrittenIds(p) ==
    { http[p].events[i].id : i \in DOMAIN http[p].events }
    \cup { m.id : m \in { s \in StoredFrom(history, 1) :
                            /\ \E k \in DOMAIN http[p].subs :
                                  \E j \in DOMAIN subs[http[p].subs[k]].got :
                                      subs[http[p].subs[k]].got[j] = s.id
                            /\ \E j \in DOMAIN http[p].responses :
                                  http[p].responses[j] = s.data } }

\* C30: every message written to a POST response or to a GET stream was
\* published for the session of that exchange.
C30_SessionIsolation ==
    /\ \A i \in DOMAIN bg.events : PublishedFor(bg.events[i].id) = bg.sessionId
    /\ \A p \in Slots : \A id \in WrittenIds(p) : PublishedFor(id) = http[p].sessionId

-----------------------------------------------------------------------------
(* Properties of the JSON batch body (Spec)                                *)

\* The envelopes of the body of exchange p that carry the id of its k-th
\* request.
BodyEnvelopes(p, k) ==
    { j \in DOMAIN http[p].body.items : http[p].body.items[j].id = RequestOf(p, k).id }

\* C31: the body of a JSON-mode batch POST answered 200 holds exactly one
\* envelope for each request of the batch: a response or error, or the
\* Request timeout error with the request's id.
C31_OneEnvelopePerBatchRequest ==
    \A p \in Posts :
        (http[p].pc = "done" /\ http[p].status = 200 /\ http[p].mode = "json"
            /\ http[p].isBatch)
        => /\ \A k \in DOMAIN http[p].subs :
                 /\ Cardinality(BodyEnvelopes(p, k)) = 1
                 /\ \A j \in BodyEnvelopes(p, k) : isTerminal(http[p].body.items[j])
           /\ Len(http[p].body.items) = Len(http[p].subs)

-----------------------------------------------------------------------------
(* Properties of the client's answers (SpecAnswer)                         *)

\* The requests published for the open stream's session since the stream's
\* inbound subscription went live.
RequestsSinceOpen ==
    { m \in StoredFrom(history, 1) :
        /\ m.subject = BackgroundInbound([sessionId |-> bg.sessionId])
        /\ isJSONRPCRequest(m.data)
        /\ NumberOf(m.id).value > subs[bg.inboundSub].liveSeq }

\* The exchange was a POST of one response envelope.
AnswerPost(p) ==
    /\ http[p].verb = "POST"
    /\ http[p].pc = "done"
    /\ Len(http[p].messages) = 1
    /\ isJSONRPCResponse(http[p].messages[1])

\* C32: a request the engine sent for a session while the session's GET
\* stream is open is written on the stream; the POST of a response is
\* answered 202, and the future of the request the response answers (the
\* one sent for the POST's session with the response's id) is completed
\* with it.
C32_AnswerCompletesRequest ==
    /\ bg.pc = "open" =>
          \A m \in RequestsSinceOpen :
              \E i \in DOMAIN bg.events : bg.events[i].id = m.id /\ bg.events[i].data = m.data
    /\ \A p \in Slots : AnswerPost(p) => http[p].status = 202
    /\ (received.count > 0 /\ ~received.isError /\ received.awaited # 0) =>
          /\ received.completed = received.awaited
          /\ outgoing[received.awaited].completions = 1
          /\ outgoing[received.awaited].kind = "success response"

-----------------------------------------------------------------------------
(* Properties of closing one connection (SpecConnection)                   *)

\* C33: a connection that was closed has its transport disconnected and is
\* out of the connection table, and no request sent on it is pending: each
\* is out of the pending table with its future settled.
C33_ConnectionCloseRejectsPending ==
    /\ \A c \in disconnectedTransports : c \notin connections
    /\ \A c \in {ConnId, OtherConnId} : c \in connections \/ c \in disconnectedTransports
    /\ ConnId \in disconnectedTransports =>
          /\ pendingRequests = {}
          /\ \A n \in DOMAIN outgoing : outgoing[n].completions >= 1

-----------------------------------------------------------------------------
(* Properties of the protocol facade (SpecFacade)                          *)

\* C34: every send and ping a handler called on its facade returned without
\* an error, and every send emitted its message through the transport of
\* the connection the handler's message arrived on.
C34_FacadeSendsOnConnection ==
    \A i \in DOMAIN facade :
        facade[i].operation \in {"send", "ping"} =>
            /\ ~facade[i].threw
            /\ facade[i].operation = "send" => facade[i].emitted # << >>

-----------------------------------------------------------------------------
(* Properties of the SSE response of a POST (Spec)                         *)

\* An SSE exchange whose subscriptions were all opened and went live (the
\* broker did not fail it).
SseExchange(p) ==
    /\ http[p].verb = "POST" /\ http[p].mode = "sse" /\ http[p].status = 200
    /\ Len(http[p].subs) = Len(RequestIndices(http[p].messages))
    /\ \A k \in DOMAIN http[p].subs : ~SubOf(p, k).failed

\* The k-th request of p has its response or error among p's events.
Answered(p, k) ==
    \E j \in DOMAIN http[p].events :
        /\ isTerminal(http[p].events[j].data)
        /\ http[p].events[j].data.id = RequestOf(p, k).id

\* C35: in SSE mode, while the client is connected, every message the
\* subscription of a request accepted is written as an event once it is
\* taken from the queue, and the response has ended exactly when every
\* request of the POST has its response or error among the events; a
\* response whose client disconnected has ended once its loops have run.
C35_SseEndsWhenAllAnswered ==
    \A p \in Slots :
        SseExchange(p) =>
            /\ ~http[p].disconnected =>
                  /\ \A k \in DOMAIN http[p].subs : \A g \in DOMAIN SubOf(p, k).got :
                        \/ \E j \in DOMAIN SubOf(p, k).items :
                              SubOf(p, k).items[j].id = SubOf(p, k).got[g]
                        \/ \E j \in DOMAIN http[p].events :
                              http[p].events[j].id = SubOf(p, k).got[g]
                  /\ http[p].pc = "done" <=>
                        \A k \in DOMAIN http[p].subs : Answered(p, k)
            /\ (http[p].disconnected /\ http[p].pc = "stream") => FALSE

-----------------------------------------------------------------------------
(* Properties of progress notifications (SpecProgress)                     *)

\* C36: the last progress notification received ran the progress callback
\* of the one pending request sent with onProgress and its token on its
\* session, and no callback when there was no such request.
C36_ProgressReachesItsRequest ==
    Cardinality(progressed.targets) <= 1 => progressed.invoked = progressed.targets

-----------------------------------------------------------------------------
(* Properties of the middleware chain (SpecMiddleware)                     *)

\* C37: a handler ran for the last HTTP request only if every middleware of
\* the chain was passed, none ended the response and no middleware error
\* went unhandled; and an unhandled middleware error with the response not
\* ended gave status 500.
C37_HandlerOnlyAfterCleanChain ==
    /\ chained.handler # "none"
          => /\ chained.idx = Len(chained.chain)
             /\ ~chained.ended
             /\ ~chained.unhandled
    /\ (chained.unhandled /\ ~chained.ended) => chained.status = 500

-----------------------------------------------------------------------------
(* Properties of the session header (Spec)                                 *)

\* C38: the ended response of every POST that created a session for a body
\* of requests or notifications carries the new session id in its
\* Mcp-Session-Id header.
C38_NewSessionIdIsEchoed ==
    \A p \in Posts :
        (http[p].pc = "done" /\ http[p].verb = "POST" /\ http[p].isNewSession
            /\ http[p].messages # << >>)
        => http[p].sessionHeader = Defined(http[p].sessionId)

-----------------------------------------------------------------------------
(* Properties of rejected POSTs (Spec)                                     *)

\* C39: a step in which a POST arrives and is answered 406, 404 or 400
\* leaves the session store, what the engine was handed and what the broker
\* published as they were.
C39_RejectedPostChangesNothing ==
    [][\A p \in Slots :
          (http[p].pc = "idle" /\ http'[p].pc = "done" /\ http'[p].verb = "POST"
              /\ http'[p].status \in {400, 404, 406})
          => /\ sessions' = sessions
             /\ engineInVars' = engineInVars
             /\ sequence' = sequence
             /\ history' = history]_vars

-----------------------------------------------------------------------------
(* Properties of the correlation key (SpecKeys)                            *)

\* C40: two different (connection id, session id or none, request id)
\* triples are mapped to different keys.
C40_KeyIsInjective ==
    mapped.a # mapped.b => mapped.keyA # mapped.keyB

=============================================================================
